---- MODULE Spec2Model ----
(***************************************************************************)
(* RSA padding codecs of SymCrypt (lib/rsa_padding.c): PKCS#1 v1.5         *)
(* encryption and signature padding, OAEP, PSS and the MGF1 mask           *)
(* generator, as a state machine of calls on caller-owned byte buffers.    *)
(* Byte buffers are sequences of 0..255; a C index i is element i+1.       *)
(***************************************************************************)
EXTENDS Integers, Sequences, FiniteSets, TLC

VARIABLES
    pc,       \* position of the call in flight: "idle", a loop label, "applied", "done"
    op,       \* which operation the machine is running / has run
    inp,      \* arguments of the apply call
    EM,       \* the caller's encoded-block buffer
    scError,  \* return value of the apply call
    i,        \* loop index of the call in flight
    rin,      \* arguments of the remove / check / verify call
    ret,      \* results of the remove / check / verify call
    log,      \* calls the call in flight has made to its collaborators, in order
    shared,   \* the data every call reads: the OID tables and the hash descriptors
    frame,    \* automatic variables of a call in flight and the reads it has made
    rgbCountAt, \* the rgbCount buffers of mask generation, by the place they are kept
    scratch   \* the scratch buffer a call was given

\* what the machine of one call leaves alone
callVars == <<shared, frame, rgbCountAt, scratch>>

vars == <<pc, op, inp, EM, scError, i, rin, ret, log, callVars>>

(***************************************************************************)
(* Bounds of the model                                                     *)
(***************************************************************************)
\* PKCS#1 encryption: block lengths 0..MaxKEnc, plaintexts of at most MaxMsgLen bytes
MaxKEnc == 12
MaxMsgLen == 1
\* block lengths of the raw (not produced by apply) blocks handed to remove
MaxKRaw == 4
\* capacities 0..MaxOut of the caller's plaintext buffer
MaxOut == 2
\* OAEP: block lengths 0..MaxKOaep
MaxKOaep == 6
\* PKCS#1 signature: block lengths up to MaxSigExtra above the minimum, OID sets
\* of at most MaxOids entries
MaxSigExtra == 1
MaxOids == 2
\* PSS: the largest modulus size in bits, the longest salt
MaxPssBits == 41
MaxSaltLen == 2

\* mask generation: the most hash blocks asked for, the longest seed
MaxMgfBlocks == 258
MaxMgfSeed == 2

\* byte values the harness draws from
MsgBytes == {0, 1, 255}
RandBytes == {0, 170, 255}
RawBytes == {0, 1, 2, 170}
\* errors the random callback can return
RandomErrors == {"SYMCRYPT_EXTERNAL_FAILURE", "SYMCRYPT_FIPS_FAILURE"}
\* prior contents of caller buffers the code has not written
FillBytes == {204}

(***************************************************************************)
(* Program constants                                                       *)
(***************************************************************************)
SYMCRYPT_NO_ERROR == "SYMCRYPT_NO_ERROR"
SYMCRYPT_INVALID_ARGUMENT == "SYMCRYPT_INVALID_ARGUMENT"
SYMCRYPT_BUFFER_TOO_SMALL == "SYMCRYPT_BUFFER_TOO_SMALL"
SYMCRYPT_SIGNATURE_VERIFICATION_FAILURE == "SYMCRYPT_SIGNATURE_VERIFICATION_FAILURE"

ASN1_SEQUENCE_BYTE == 48
ASN1_OCTET_STRING_BYTE == 4
PKCS_BLOCKTYPE_2 == 2

(***************************************************************************)
(* Bytes and buffers                                                       *)
(***************************************************************************)
RECURSIVE XorBits(_, _, _)
XorBits(a, b, n) ==
    IF n = 0 THEN 0
    ELSE (((a % 2) + (b % 2)) % 2) + (2 * XorBits(a \div 2, b \div 2, n - 1))

RECURSIVE AndBits(_, _, _)
AndBits(a, b, n) ==
    IF n = 0 \/ a = 0 \/ b = 0 THEN 0
    ELSE ((a % 2) * (b % 2)) + (2 * AndBits(a \div 2, b \div 2, n - 1))

\* a ^ b and a & b on bytes
ByteXor(a, b) == XorBits(a, b, 8)
ByteAnd(a, b) == AndBits(a, b, 8)
\* a & b and a & ~b on 32-bit flag words
FlagAnd(a, b) == AndBits(a, b, 32)
FlagAndNot(a, b) == a - AndBits(a, b, 32)

\* n bytes of value b
Fill(n, b) == [j \in 1..n |-> b]
\* all byte strings of length n over the byte set S
Strings(n, S) == [1..n -> S]
\* all byte strings of length lo..hi over S
StringsUpTo(lo, hi, S) == UNION {Strings(n, S) : n \in lo..hi}
\* buf[off] (C index)
At(buf, off) == buf[off + 1]
\* buf[off .. off+n) (C indices)
Slice(buf, off, n) == SubSeq(buf, off + 1, off + n)
\* memcpy(buf + off, src, Len(src)): every written index lies inside buf
Write(buf, off, src) ==
    SubSeq(buf, 1, off) \o src \o SubSeq(buf, off + Len(src) + 1, Len(buf))
\* buf[off] = b
Poke(buf, off, b) == Write(buf, off, <<b>>)
\* elementwise a ^ b of two strings of the same length
SeqXor(a, b) == [j \in 1..Len(a) |-> ByteXor(a[j], b[j])]

\* SymCryptWipe( pb + off, n )
SymCryptWipe(buf, off, n) == Write(buf, off, Fill(n, 0))
\* SymCryptEqual: full-length comparison of two buffers of the same length
SymCryptEqual(a, b) == \A j \in 1..Len(a) : a[j] = b[j]

\* what one call SymCryptCallbackRandom( pb, cb ) can give: an error, or cb bytes
SymCryptCallbackRandom(cb) ==
    {[err |-> e, bytes |-> <<>>] : e \in RandomErrors}
    \cup {[err |-> SYMCRYPT_NO_ERROR, bytes |-> s] : s \in Strings(cb, RandBytes)}

\* the plaintext-output side of a remove call before the call has written it
NoRet == [scError |-> "none", cbResult |-> -1, pbPlaintext |-> <<>>]
NoArgs == [none |-> TRUE]

(***************************************************************************)
(* PKCS#1 v1.5 encryption padding:  0x00 || 0x02 || PS || 0x00 || M        *)
(***************************************************************************)
\* (mutation) apply asks for room for the three framing bytes only
Pkcs1EncBadArgsNoPs(cbPlaintext, flags, cbPKCS1Format) ==
    (flags # 0) \/ ((cbPlaintext + 3) > cbPKCS1Format)

\* the length check of apply
Pkcs1EncBadArgs(cbPlaintext, flags, cbPKCS1Format) ==
    (flags # 0) \/ ((cbPlaintext + 11) > cbPKCS1Format)

\* cbTmp, the length of PS
Pkcs1EncPsLen(cbPlaintext, cbPKCS1Format) == cbPKCS1Format - (cbPlaintext + 3)

\* flag words of the operations that know no flag: none, one that another
\* operation knows, one that no operation knows
NoFlagValues == {0, 1, 4}

\* the plaintext of the written example, which goes into a block of 16 bytes
Pkcs1EncExamplePlaintext == <<1, 2, 3, 4, 5>>

\* block lengths and plaintexts of the apply calls: every length up to MaxKEnc
\* with every plaintext up to MaxMsgLen bytes, and the written example
Pkcs1EncApplyInputs ==
    {[k |-> k, M |-> M] : k \in 0..MaxKEnc, M \in StringsUpTo(0, MaxMsgLen, MsgBytes)}
    \cup {[k |-> 16, M |-> Pkcs1EncExamplePlaintext]}

\* what the first draw of cbTmp bytes gives: for the plaintext of the example
\* the bytes of the example, otherwise any outcome over RandBytes
Pkcs1EncFirstDraws(M, cbTmp) ==
    IF M = Pkcs1EncExamplePlaintext
    THEN {[err |-> SYMCRYPT_NO_ERROR,
           bytes |-> SubSeq(<<170, 187, 204, 221, 238, 255, 17, 34>>, 1, cbTmp)]}
    ELSE SymCryptCallbackRandom(cbTmp)

\* (mutation) an error of the random source does not end the call
Pkcs1EncDrawIgnored(scError_) == FALSE

\* the test made after each call of the random source: goto cleanup
Pkcs1EncDrawFailed(scError_) == scError_ # SYMCRYPT_NO_ERROR

\* the call up to and including the first draw of PS; log holds the result of
\* the first draw and, behind it, the result of the latest redraw
Pkcs1EncApplyCallOn(inputs) ==
    /\ pc = "idle"
    /\ \E km \in inputs, flags \in NoFlagValues, fill \in FillBytes :
        LET k == km.k
            M == km.M
            buf == Fill(k, fill)
            cbTmp == Pkcs1EncPsLen(Len(M), k)
        IN  /\ op' = "Pkcs1ApplyEncryptionPadding"
            /\ inp' = [pbPlaintext |-> M, flags |-> flags, cbPKCS1Format |-> k,
                       prior |-> buf]
            /\ IF Pkcs1EncBadArgs(Len(M), flags, k)
               THEN /\ scError' = SYMCRYPT_INVALID_ARGUMENT
                    /\ EM' = buf
                    /\ pc' = "applied"
                    /\ i' = 0
                    /\ log' = <<>>
               ELSE \E r \in Pkcs1EncFirstDraws(M, cbTmp) :
                    LET hdr == Poke(Poke(buf, 0, 0), 1, PKCS_BLOCKTYPE_2)
                    IN  /\ log' = <<[err |-> r.err]>>
                        /\ IF Pkcs1EncDrawFailed(r.err)
                           THEN /\ scError' = r.err
                                /\ EM' = hdr
                                /\ pc' = "applied"
                                /\ i' = 0
                           ELSE /\ scError' = SYMCRYPT_NO_ERROR
                                /\ EM' = Write(hdr, 2, r.bytes)
                                /\ pc' = "ps"
                                /\ i' = 0
    /\ UNCHANGED <<rin, ret, callVars>>

Pkcs1EncApplyCall == Pkcs1EncApplyCallOn(Pkcs1EncApplyInputs)

\* the same call on the shortest blocks of an empty and of a one-byte
\* plaintext, and on a block one byte shorter
Pkcs1EncApplyCallShort ==
    Pkcs1EncApplyCallOn({[k |-> 10, M |-> <<>>], [k |-> 11, M |-> <<>>],
                         [k |-> 12, M |-> <<0>>]})

\* the zero PS positions at or after loop index from
Pkcs1EncZeros(buf, from, cbTmp) == {j \in from..(cbTmp - 1) : At(buf, 2 + j) = 0}

\* (mutation) the for loop never finds a zero byte
Pkcs1EncNoZero(buf, from, cbTmp) == cbTmp

\* first index the for loop stops at: the smallest zero position, or cbTmp
Pkcs1EncNextZero(buf, from, cbTmp) ==
    IF Pkcs1EncZeros(buf, from, cbTmp) = {} THEN cbTmp
    ELSE CHOOSE j \in Pkcs1EncZeros(buf, from, cbTmp) :
            \A j2 \in Pkcs1EncZeros(buf, from, cbTmp) : j <= j2

\* (mutation) every redraw goes to the first byte of PS
Pkcs1EncRedrawAtFirst(z) == 2

\* the offset of the byte that is redrawn in pass z of the for loop: line 168
\* passes &pbPKCS1Format[2+i]
Pkcs1EncRedrawAt(z) == 2 + z

\* one pass of the while loop: the for loop has advanced to a zero byte of PS,
\* which is redrawn as a single byte, the random source giving r
Pkcs1EncApplyRedrawWith(r) ==
    /\ pc = "ps"
    /\ LET cbTmp == Pkcs1EncPsLen(Len(inp.pbPlaintext), inp.cbPKCS1Format)
           z == Pkcs1EncNextZero(EM, i, cbTmp)
       IN  /\ z < cbTmp
           /\ log' = <<log[1], [err |-> r.err]>>
           /\ IF Pkcs1EncDrawFailed(r.err)
              THEN /\ scError' = r.err
                   /\ EM' = EM
                   /\ pc' = "applied"
                   /\ i' = z
              ELSE /\ scError' = r.err
                   /\ EM' = Write(EM, Pkcs1EncRedrawAt(z), r.bytes)
                   /\ pc' = "ps"
                   /\ i' = z
    /\ UNCHANGED <<op, inp, rin, ret, callVars>>

\* one pass of the while loop, with whatever the random source gives
Pkcs1EncApplyRedraw ==
    \E r \in SymCryptCallbackRandom(1) : Pkcs1EncApplyRedrawWith(r)

\* the passes of the while loop in which the random source gives an error or a
\* byte other than 0x00
Pkcs1EncApplyRedrawEnds ==
    \E r \in SymCryptCallbackRandom(1) :
        /\ (r.err # SYMCRYPT_NO_ERROR \/ r.bytes # <<0>>)
        /\ Pkcs1EncApplyRedrawWith(r)

\* the for loop has run off the end of PS: delimiter and message are written
Pkcs1EncApplyFinish ==
    /\ pc = "ps"
    /\ LET cbTmp == Pkcs1EncPsLen(Len(inp.pbPlaintext), inp.cbPKCS1Format)
       IN  /\ Pkcs1EncNextZero(EM, i, cbTmp) = cbTmp
           /\ EM' = Write(Poke(EM, 2 + cbTmp, 0), 3 + cbTmp, inp.pbPlaintext)
           /\ i' = cbTmp
    /\ scError' = SYMCRYPT_NO_ERROR
    /\ pc' = "applied"
    /\ UNCHANGED <<op, inp, rin, ret, log, callVars>>

\* (mutation) the scan runs on to the last 0x00 instead of stopping at the first
Pkcs1EncScanLast(pbPKCS1Format) ==
    LET hits == {j \in 2..(Len(pbPKCS1Format) - 1) : At(pbPKCS1Format, j) = 0}
    IN  IF hits = {} THEN Len(pbPKCS1Format)
        ELSE CHOOSE j \in hits : \A j2 \in hits : j >= j2

\* the delimiter scan: the first index >= 2 holding 0x00, or cbPKCS1Format
Pkcs1EncScan(pbPKCS1Format) ==
    LET hits == {j \in 2..(Len(pbPKCS1Format) - 1) : At(pbPKCS1Format, j) = 0}
    IN  IF hits = {} THEN Len(pbPKCS1Format)
        ELSE CHOOSE j \in hits : \A j2 \in hits : j <= j2

\* (mutation) a padding string shorter than 8 bytes is refused
Pkcs1EncValidPaddingMinPs(pbPKCS1Format) ==
    /\ At(pbPKCS1Format, 0) = 0
    /\ At(pbPKCS1Format, 1) = PKCS_BLOCKTYPE_2
    /\ Pkcs1EncScan(pbPKCS1Format) < Len(pbPKCS1Format)
    /\ Pkcs1EncScan(pbPKCS1Format) >= 10

\* bValidPadding after the two format-byte tests and the scan
Pkcs1EncValidPadding(pbPKCS1Format) ==
    /\ At(pbPKCS1Format, 0) = 0
    /\ At(pbPKCS1Format, 1) = PKCS_BLOCKTYPE_2
    /\ Pkcs1EncScan(pbPKCS1Format) < Len(pbPKCS1Format)

\* a < b on SIZE_T, where a value that has wrapped below zero is kept as the
\* negative number it is congruent to (it is then larger than every small value)
SizeLess(a, b) == IF (a < 0) = (b < 0) THEN a < b ELSE b < 0

\* (mutation) the length cell is set only when the call succeeds
RemoveOutputLate(cb, src, off, pbNull, cbPlaintext, out) ==
    IF pbNull
    THEN [scError |-> SYMCRYPT_NO_ERROR, cbResult |-> cb, pbPlaintext |-> out.pbPlaintext]
    ELSE IF SizeLess(cbPlaintext, cb)
    THEN [scError |-> SYMCRYPT_BUFFER_TOO_SMALL, cbResult |-> out.cbResult,
          pbPlaintext |-> out.pbPlaintext]
    ELSE [scError |-> SYMCRYPT_NO_ERROR, cbResult |-> cb,
          pbPlaintext |-> Write(out.pbPlaintext, 0, Slice(src, off, cb))]

\* the output protocol shared by both remove paths: the length cell is set to cb,
\* then cb bytes at src + off are copied if the caller's buffer takes them
RemoveOutput(cb, src, off, pbNull, cbPlaintext, out) ==
    IF pbNull
    THEN [scError |-> SYMCRYPT_NO_ERROR, cbResult |-> cb, pbPlaintext |-> out.pbPlaintext]
    ELSE IF SizeLess(cbPlaintext, cb)
    THEN [scError |-> SYMCRYPT_BUFFER_TOO_SMALL, cbResult |-> cb,
          pbPlaintext |-> out.pbPlaintext]
    ELSE [scError |-> SYMCRYPT_NO_ERROR, cbResult |-> cb,
          pbPlaintext |-> Write(out.pbPlaintext, 0, Slice(src, off, cb))]

\* SymCryptRsaPkcs1RemoveEncryptionPadding; out is the state of the caller's
\* length cell and plaintext buffer before the call
SymCryptRsaPkcs1RemoveEncryptionPadding(pbPKCS1Format, flags, pbNull, cbPlaintext, out) ==
    IF (flags # 0) \/ (Len(pbPKCS1Format) < 2)
    THEN [out EXCEPT !.scError = SYMCRYPT_INVALID_ARGUMENT]
    ELSE IF ~Pkcs1EncValidPadding(pbPKCS1Format)
    THEN [out EXCEPT !.scError = SYMCRYPT_INVALID_ARGUMENT]
    ELSE LET idx == Pkcs1EncScan(pbPKCS1Format) + 1
         IN  RemoveOutput(Len(pbPKCS1Format) - idx, pbPKCS1Format, idx,
                          pbNull, cbPlaintext, out)

\* (mutation) a bad format byte ends the call before the scan
Pkcs1EncScanReadsEarly(pbPKCS1Format) ==
    IF At(pbPKCS1Format, 0) # 0 \/ At(pbPKCS1Format, 1) # PKCS_BLOCKTYPE_2 THEN <<>>
    ELSE [j \in 1..((IF Pkcs1EncScan(pbPKCS1Format) < Len(pbPKCS1Format)
                     THEN Pkcs1EncScan(pbPKCS1Format)
                     ELSE Len(pbPKCS1Format) - 1) - 1) |-> j + 1]

\* the block indices the for loop of lines 213-219 reads, in order: from 2 up
\* to the first 0x00, or to the end of the block
Pkcs1EncScanReads(pbPKCS1Format) ==
    [j \in 1..((IF Pkcs1EncScan(pbPKCS1Format) < Len(pbPKCS1Format)
                THEN Pkcs1EncScan(pbPKCS1Format)
                ELSE Len(pbPKCS1Format) - 1) - 1) |-> j + 1]

\* the reads of the block that a remove call makes before it returns: reads
\* lists the indices in order, checks counts those of lines 210-219 (the two
\* format bytes and the scan), passes the passes of the for loop; the memcpy
\* of line 246 reads the plaintext
Pkcs1EncRemoveReads(pbPKCS1Format, flags, pbNull, cbPlaintext) ==
    IF (flags # 0) \/ (Len(pbPKCS1Format) < 2)
    THEN [reads |-> <<>>, checks |-> 0, passes |-> 0]
    ELSE LET scan == Pkcs1EncScanReads(pbPKCS1Format)
             idx == Pkcs1EncScan(pbPKCS1Format) + 1
             cb == Len(pbPKCS1Format) - idx
             copied == /\ Pkcs1EncValidPadding(pbPKCS1Format)
                       /\ ~pbNull
                       /\ ~SizeLess(cbPlaintext, cb)
         IN  [reads |-> <<0, 1>> \o scan
                          \o (IF copied THEN [j \in 1..cb |-> idx + (j - 1)] ELSE <<>>),
              checks |-> 2 + Len(scan),
              passes |-> Len(scan)]

\* flags, buffer pointer and capacity of a remove call: every buffer with flags
\* 0, and a buffer of MaxOut bytes with each nonzero flag word
RemoveArgs ==
    {[flags |-> 0, pbNull |-> n, cbPlaintext |-> cb] : n \in BOOLEAN, cb \in 0..MaxOut}
    \cup {[flags |-> f, pbNull |-> FALSE, cbPlaintext |-> MaxOut] :
              f \in NoFlagValues \ {0}}

\* the caller's length cell and plaintext buffer before a remove call
PriorOut(pbNull, cbPlaintext, fill) ==
    [scError |-> "none", cbResult |-> -1,
     pbPlaintext |-> IF pbNull THEN <<>> ELSE Fill(cbPlaintext, fill)]

\* remove on the block a successful apply has written
Pkcs1EncRemoveApplied ==
    /\ pc = "applied"
    /\ op = "Pkcs1ApplyEncryptionPadding"
    /\ scError = SYMCRYPT_NO_ERROR
    /\ \E a \in RemoveArgs, fill \in FillBytes :
        /\ rin' = [pbPKCS1Format |-> EM, flags |-> a.flags, pbNull |-> a.pbNull,
                   cbPlaintext |-> a.cbPlaintext,
                   prior |-> PriorOut(a.pbNull, a.cbPlaintext, fill)]
        /\ ret' = SymCryptRsaPkcs1RemoveEncryptionPadding(
                      EM, a.flags, a.pbNull, a.cbPlaintext,
                      PriorOut(a.pbNull, a.cbPlaintext, fill))
        /\ frame' = Pkcs1EncRemoveReads(EM, a.flags, a.pbNull, a.cbPlaintext)
    /\ pc' = "done"
    /\ UNCHANGED <<op, inp, EM, scError, i, log, shared, rgbCountAt, scratch>>

\* remove on a block of the caller's making
Pkcs1EncRemoveRaw ==
    /\ pc = "idle"
    /\ \E blk \in StringsUpTo(0, MaxKRaw, RawBytes), a \in RemoveArgs,
          fill \in FillBytes :
        /\ rin' = [pbPKCS1Format |-> blk, flags |-> a.flags, pbNull |-> a.pbNull,
                   cbPlaintext |-> a.cbPlaintext,
                   prior |-> PriorOut(a.pbNull, a.cbPlaintext, fill)]
        /\ ret' = SymCryptRsaPkcs1RemoveEncryptionPadding(
                      blk, a.flags, a.pbNull, a.cbPlaintext,
                      PriorOut(a.pbNull, a.cbPlaintext, fill))
        /\ frame' = Pkcs1EncRemoveReads(blk, a.flags, a.pbNull, a.cbPlaintext)
        /\ EM' = blk
    /\ op' = "Pkcs1RemoveEncryptionPadding"
    /\ pc' = "done"
    /\ UNCHANGED <<inp, scError, i, log, shared, rgbCountAt, scratch>>

(***************************************************************************)
(* Hash adapter.  The digests are outside this file; a hash descriptor     *)
(* carries its result size, and the streaming interface hashes the         *)
(* concatenation of what was appended.  The stand-in digests are small     *)
(* multiplicative checksums of 1 and 2 bytes.                              *)
(***************************************************************************)
HashAlgs == {[name |-> "H8", cbResult |-> 1, mult |-> 181, iv |-> 90],
             [name |-> "H16", cbResult |-> 2, mult |-> 25173, iv |-> 23130]}

SymCryptHashResultSize(hashAlgorithm) == hashAlgorithm.cbResult

RECURSIVE HashFold(_, _, _, _)
HashFold(hashAlgorithm, h, data, j) ==
    IF j > Len(data) THEN h
    ELSE HashFold(hashAlgorithm,
                  ((h + data[j] + 1) * hashAlgorithm.mult) % (256 ^ hashAlgorithm.cbResult),
                  data, j + 1)

\* big-endian bytes of h, cb of them
RECURSIVE BigEndian(_, _)
BigEndian(h, cb) ==
    IF cb = 0 THEN <<>> ELSE Append(BigEndian(h \div 256, cb - 1), h % 256)

\* SymCryptHash( hashAlgorithm, pbData, cbData, pbResult, cbResult )
SymCryptHash(hashAlgorithm, data) ==
    BigEndian(HashFold(hashAlgorithm, hashAlgorithm.iv, data, 1), hashAlgorithm.cbResult)

\* SymCryptHashInit / SymCryptHashAppend / SymCryptHashResult on a hash state
SymCryptHashInit == <<>>
SymCryptHashAppend(state, data) == state \o data
SymCryptHashResult(hashAlgorithm, state) == SymCryptHash(hashAlgorithm, state)

(***************************************************************************)
(* MGF1 mask generation                                                    *)
(***************************************************************************)
\* pbCount[j]: byte j of the UINT32 i in memory (little-endian)
CountByte(n, j) == (n \div (256 ^ j)) % 256

\* (mutation) the full reversal leaves the count bytes in memory order
MaskGenCountNoReverse(rgbCount, n, fAvoidDWORDReverse) ==
    IF fAvoidDWORDReverse
    THEN Poke(rgbCount, 3, CountByte(n, 0))
    ELSE [j \in 1..4 |-> CountByte(n, j - 1)]

\* rgbCount after the "reverse the count bytes" step of iteration n
MaskGenCount(rgbCount, n, fAvoidDWORDReverse) ==
    IF fAvoidDWORDReverse
    THEN Poke(rgbCount, 3, CountByte(n, 0))
    ELSE [j \in 1..4 |-> CountByte(n, 4 - (j - 1) - 1)]

\* the second half of a pass of the for loop (lines 99-116): rgbCount is hashed
\* behind the seed and the hash is copied; the locals and the destination
\* buffer afterwards, and whether the pass ended in the break. pbMaskIndex is
\* the write offset into pbDst
MaskGenCopy(hashAlgorithm, pbSrc, rgbCount, cbMaskRemaining, pbMaskIndex, pbDst) ==
    LET cbHashAlg == SymCryptHashResultSize(hashAlgorithm)
        st == SymCryptHashAppend(SymCryptHashAppend(SymCryptHashInit, pbSrc), rgbCount)
        rgbHash == SymCryptHashResult(hashAlgorithm, st)
    IN  IF cbMaskRemaining >= cbHashAlg
        THEN [rgbCount |-> rgbCount, cbMaskRemaining |-> cbMaskRemaining - cbHashAlg,
              pbMaskIndex |-> pbMaskIndex + cbHashAlg,
              pbDst |-> Write(pbDst, pbMaskIndex, rgbHash), brk |-> FALSE]
        ELSE [rgbCount |-> rgbCount, cbMaskRemaining |-> cbMaskRemaining,
              pbMaskIndex |-> pbMaskIndex,
              pbDst |-> Write(pbDst, pbMaskIndex, Slice(rgbHash, 0, cbMaskRemaining)),
              brk |-> TRUE]

\* one pass of the for loop body, iteration n
MaskGenStep(hashAlgorithm, pbSrc, n, fAvoidDWORDReverse, rgbCount, cbMaskRemaining, pbMaskIndex, pbDst) ==
    MaskGenCopy(hashAlgorithm, pbSrc, MaskGenCount(rgbCount, n, fAvoidDWORDReverse),
                cbMaskRemaining, pbMaskIndex, pbDst)

\* the for loop from iteration n on; pbDst is the destination buffer,
\* pbMaskIndex the write offset into it
RECURSIVE MaskGenLoop(_, _, _, _, _, _, _, _)
MaskGenLoop(hashAlgorithm, pbSrc, n, cIterations, rgbCount, cbMaskRemaining, pbMaskIndex, pbDst) ==
    IF ~(n < cIterations) THEN pbDst
    ELSE LET s == MaskGenStep(hashAlgorithm, pbSrc, n, cIterations < 256, rgbCount,
                              cbMaskRemaining, pbMaskIndex, pbDst)
         IN  IF s.brk THEN s.pbDst
             ELSE MaskGenLoop(hashAlgorithm, pbSrc, n + 1, cIterations, s.rgbCount,
                              s.cbMaskRemaining, s.pbMaskIndex, s.pbDst)

\* SymCryptRsaPaddingMaskGeneration: the cbDst bytes written at pbDst
SymCryptRsaPaddingMaskGeneration(hashAlgorithm, pbSrc, cbDst) ==
    LET cbHashAlg == SymCryptHashResultSize(hashAlgorithm)
        cIterations == (cbDst + (cbHashAlg - 1)) \div cbHashAlg
    IN  MaskGenLoop(hashAlgorithm, pbSrc, 0, cIterations, Fill(4, 0), cbDst, 0,
                    Fill(cbDst, 0))

(***************************************************************************)
(* OAEP encryption padding:  0x00 || maskedSeed || maskedDB                *)
(***************************************************************************)
\* the argument checks of apply; a supplied seed is pbSeed with cbSeed = Len(pbSeed)
OaepBadArgs(cbPlaintext, cbHashAlg, seedNull, cbSeed, flags, cbOAEPFormat) ==
    \/ flags # 0
    \/ cbOAEPFormat < (cbPlaintext + (cbHashAlg * 2) + 2)
    \/ (~seedNull /\ cbSeed > cbHashAlg)
    \/ (seedNull /\ cbSeed # 0)

\* pbDB as apply builds it: lHash || PS || 0x01 || M
OaepDB(pbPlaintext, hashAlgorithm, pbLabel, cbOAEPFormat) ==
    LET cbHashAlg == SymCryptHashResultSize(hashAlgorithm)
        cbPS == cbOAEPFormat - (Len(pbPlaintext) + (cbHashAlg * 2) + 2)
        cbDB == cbOAEPFormat - (cbHashAlg + 1)
        d0 == Write(Fill(cbDB, 0), 0, SymCryptHash(hashAlgorithm, pbLabel))
        d1 == SymCryptWipe(d0, cbHashAlg, cbPS)
        d2 == Poke(d1, cbHashAlg + cbPS, 1)
    IN  Write(d2, cbHashAlg + cbPS + 1, pbPlaintext)

\* (mutation) a short seed is copied to the end of pbSeedInternal
OaepSeedInternalAtEnd(pbSeed, cbHashAlg) ==
    Write(Fill(cbHashAlg, 0), cbHashAlg - Len(pbSeed), pbSeed)

\* pbSeedInternal for a supplied seed: wiped, then the seed copied to its front
OaepSeedInternal(pbSeed, cbHashAlg) == Write(Fill(cbHashAlg, 0), 0, pbSeed)

\* the block written from pbDB and pbSeedInternal: both masks and both xor loops
OaepMask(hashAlgorithm, pbSeedInternal, pbDB, pbOAEPFormat) ==
    LET cbHashAlg == SymCryptHashResultSize(hashAlgorithm)
        cbDB == Len(pbDB)
        pbDBMask == SymCryptRsaPaddingMaskGeneration(hashAlgorithm, pbSeedInternal, cbDB)
        e0 == Poke(pbOAEPFormat, 0, 0)
        e1 == Write(e0, cbHashAlg + 1, SeqXor(pbDB, pbDBMask))
        pbSeedMask == SymCryptRsaPaddingMaskGeneration(
                          hashAlgorithm, Slice(e1, cbHashAlg + 1, cbDB), cbHashAlg)
    IN  Write(e1, 1, SeqXor(pbSeedInternal, pbSeedMask))

\* seeds a caller can supply: every length up to one more than the hash length
SeedBytes == {0, 90}
\* labels
Labels == {<<>>, <<1>>, <<2>>}

\* SymCryptRsaOaepApplyEncryptionPadding
OaepApplyCall ==
    /\ pc = "idle"
    /\ \E k \in 0..MaxKOaep, M \in StringsUpTo(0, MaxMsgLen, MsgBytes),
          hashAlgorithm \in HashAlgs, L \in Labels, flags \in NoFlagValues,
          seedNull \in BOOLEAN, fill \in FillBytes :
       \E pbSeed \in IF seedNull THEN {<<>>}
                     ELSE StringsUpTo(0, hashAlgorithm.cbResult + 1, SeedBytes),
          cbSeedNull \in IF seedNull THEN {0, 1} ELSE {0} :
        LET cbHashAlg == SymCryptHashResultSize(hashAlgorithm)
            cbSeed == IF seedNull THEN cbSeedNull ELSE Len(pbSeed)
            buf == Fill(k, fill)
        IN  /\ inp' = [pbPlaintext |-> M, hashAlgorithm |-> hashAlgorithm,
                       pbLabel |-> L, seedNull |-> seedNull, pbSeed |-> pbSeed,
                       cbSeed |-> cbSeed, flags |-> flags, cbOAEPFormat |-> k,
                       prior |-> buf]
            /\ IF OaepBadArgs(Len(M), cbHashAlg, seedNull, cbSeed, flags, k)
               THEN /\ scError' = SYMCRYPT_INVALID_ARGUMENT
                    /\ EM' = buf
                    /\ log' = <<>>
               ELSE IF seedNull
               THEN \E r \in SymCryptCallbackRandom(cbHashAlg) :
                      /\ log' = <<r>>
                      /\ IF r.err # SYMCRYPT_NO_ERROR
                         THEN /\ scError' = r.err
                              /\ EM' = buf
                         ELSE /\ scError' = SYMCRYPT_NO_ERROR
                              /\ EM' = OaepMask(hashAlgorithm, r.bytes,
                                                OaepDB(M, hashAlgorithm, L, k), buf)
               ELSE /\ scError' = SYMCRYPT_NO_ERROR
                    /\ log' = <<>>
                    /\ EM' = OaepMask(hashAlgorithm, OaepSeedInternal(pbSeed, cbHashAlg),
                                      OaepDB(M, hashAlgorithm, L, k), buf)
    /\ op' = "OaepApplyEncryptionPadding"
    /\ pc' = "applied"
    /\ UNCHANGED <<i, rin, ret, callVars>>

\* pbDB[j] as remove's label and PS loops read it: pbLabelHash lies directly
\* behind pbDB in the scratch region
OaepReadDB(pbDB, pbLabelHash, j) == At(pbDB \o pbLabelHash, j)

\* (mutation) the label-hash loop leaves out the last byte
OaepLabelMismatchShort(pbDB, pbLabelHash, cbHashAlg) ==
    \E j \in 0..(cbHashAlg - 2) : At(pbLabelHash, j) # OaepReadDB(pbDB, pbLabelHash, j)

\* the label-hash loop: TRUE when some byte differs
OaepLabelMismatch(pbDB, pbLabelHash, cbHashAlg) ==
    \E j \in 0..(cbHashAlg - 1) : At(pbLabelHash, j) # OaepReadDB(pbDB, pbLabelHash, j)

\* (mutation) cnt is not stepped past the 0x01 separator
RECURSIVE OaepScanPSKeepSeparator(_, _)
OaepScanPSKeepSeparator(pbDB, cnt) ==
    IF ~(cnt < Len(pbDB)) THEN [bad |-> FALSE, cnt |-> cnt]
    ELSE IF At(pbDB, cnt) = 1 THEN [bad |-> FALSE, cnt |-> cnt]
    ELSE IF At(pbDB, cnt) # 0 THEN [bad |-> TRUE, cnt |-> cnt]
    ELSE OaepScanPSKeepSeparator(pbDB, cnt + 1)

\* the PS loop from cnt on: [bad |-> a byte other than 0x00 / 0x01 came first,
\* cnt |-> the value of cnt when the loop is left]
RECURSIVE OaepScanPS(_, _)
OaepScanPS(pbDB, cnt) ==
    IF ~(cnt < Len(pbDB)) THEN [bad |-> FALSE, cnt |-> cnt]
    ELSE IF At(pbDB, cnt) = 1 THEN [bad |-> FALSE, cnt |-> cnt + 1]
    ELSE IF At(pbDB, cnt) # 0 THEN [bad |-> TRUE, cnt |-> cnt]
    ELSE OaepScanPS(pbDB, cnt + 1)

\* pbSeed and pbDB as remove recovers them from the block
OaepUnmask(pbOAEPFormat, hashAlgorithm) ==
    LET cbHashAlg == SymCryptHashResultSize(hashAlgorithm)
        cbDB == Len(pbOAEPFormat) - (cbHashAlg + 1)
        pbSeedMask == SymCryptRsaPaddingMaskGeneration(
                          hashAlgorithm, Slice(pbOAEPFormat, cbHashAlg + 1, cbDB), cbHashAlg)
        pbSeed == SeqXor(Slice(pbOAEPFormat, 1, cbHashAlg), pbSeedMask)
        pbDBMask == SymCryptRsaPaddingMaskGeneration(hashAlgorithm, pbSeed, cbDB)
    IN  [pbSeed |-> pbSeed,
         pbDB |-> SeqXor(Slice(pbOAEPFormat, cbHashAlg + 1, cbDB), pbDBMask)]

\* SymCryptRsaOaepRemoveEncryptionPadding
SymCryptRsaOaepRemoveEncryptionPadding(pbOAEPFormat, hashAlgorithm, pbLabel, flags, pbNull, cbPlaintext, out) ==
    LET cbHashAlg == SymCryptHashResultSize(hashAlgorithm)
    IN  IF flags # 0
        THEN [out EXCEPT !.scError = SYMCRYPT_INVALID_ARGUMENT]
        ELSE IF (Len(pbOAEPFormat) < (cbHashAlg + 1)) \/ (At(pbOAEPFormat, 0) # 0)
        THEN [out EXCEPT !.scError = SYMCRYPT_INVALID_ARGUMENT]
        ELSE LET pbDB == OaepUnmask(pbOAEPFormat, hashAlgorithm).pbDB
                 pbLabelHash == SymCryptHash(hashAlgorithm, pbLabel)
                 ps == OaepScanPS(pbDB, cbHashAlg)
             IN  IF OaepLabelMismatch(pbDB, pbLabelHash, cbHashAlg)
                 THEN [out EXCEPT !.scError = SYMCRYPT_INVALID_ARGUMENT]
                 ELSE IF ps.bad
                 THEN [out EXCEPT !.scError = SYMCRYPT_INVALID_ARGUMENT]
                 ELSE RemoveOutput(Len(pbDB) - ps.cnt, pbDB, ps.cnt,
                                   pbNull, cbPlaintext, out)

\* remove on the block a successful apply has written
OaepRemoveApplied ==
    /\ pc = "applied"
    /\ op = "OaepApplyEncryptionPadding"
    /\ scError = SYMCRYPT_NO_ERROR
    /\ \E a \in RemoveArgs, fill \in FillBytes :
       \E L \in IF a.flags = 0 THEN Labels ELSE {inp.pbLabel} :
        /\ rin' = [pbOAEPFormat |-> EM, hashAlgorithm |-> inp.hashAlgorithm,
                   pbLabel |-> L, flags |-> a.flags, pbNull |-> a.pbNull,
                   cbPlaintext |-> a.cbPlaintext,
                   prior |-> PriorOut(a.pbNull, a.cbPlaintext, fill)]
        /\ ret' = SymCryptRsaOaepRemoveEncryptionPadding(
                      EM, inp.hashAlgorithm, L, a.flags, a.pbNull, a.cbPlaintext,
                      PriorOut(a.pbNull, a.cbPlaintext, fill))
    /\ pc' = "done"
    /\ UNCHANGED <<op, inp, EM, scError, i, log, callVars>>

\* bytes of the data blocks and seeds of blocks of the caller's making
CraftBytes == {0, 1, 2}

\* remove on a block of the caller's making: a first byte, and a seed and a data
\* block masked the way the format masks them
OaepRemoveRaw ==
    /\ pc = "idle"
    /\ \E hashAlgorithm \in HashAlgs, L \in Labels, k \in 0..MaxKOaep, b0 \in {0, 1},
          pbNull \in BOOLEAN, cb \in 0..MaxOut, fill \in FillBytes :
       LET cbHashAlg == SymCryptHashResultSize(hashAlgorithm)
           cbDB == k - (cbHashAlg + 1)
           fronts == {SymCryptHash(hashAlgorithm, L2) : L2 \in Labels}
           DBs == IF cbDB >= cbHashAlg
                  THEN {front \o rest : front \in fronts,
                                        rest \in Strings(cbDB - cbHashAlg, CraftBytes)}
                  ELSE {Slice(front, 0, cbDB) : front \in fronts}
                       \cup Strings(cbDB, CraftBytes)
       IN  \E blk \in IF k < cbHashAlg + 1
                      THEN Strings(k, {0})
                      ELSE {Poke(OaepMask(hashAlgorithm, seed, pbDB, Fill(k, 0)), 0, b0)
                               : seed \in Strings(cbHashAlg, {0, 90}), pbDB \in DBs} :
            /\ rin' = [pbOAEPFormat |-> blk, hashAlgorithm |-> hashAlgorithm,
                       pbLabel |-> L, flags |-> 0, pbNull |-> pbNull,
                       cbPlaintext |-> cb, prior |-> PriorOut(pbNull, cb, fill)]
            /\ ret' = SymCryptRsaOaepRemoveEncryptionPadding(
                          blk, hashAlgorithm, L, 0, pbNull, cb, PriorOut(pbNull, cb, fill))
            /\ EM' = blk
    /\ op' = "OaepRemoveEncryptionPadding"
    /\ pc' = "done"
    /\ UNCHANGED <<inp, scError, i, log, callVars>>

(***************************************************************************)
(* PKCS#1 v1.5 signature padding:  0x00 || 0x01 || 0xFF.. || 0x00 || T     *)
(***************************************************************************)
SYMCRYPT_FLAG_RSA_PKCS1_NO_ASN1 == 1
SYMCRYPT_FLAG_RSA_PKCS1_OPTIONAL_HASH_OID == 2

\* a SYMCRYPT_OID: { cbOID, pbOID }; pbOID is non-null in every table entry
Oid(bytes) == [cbOID |-> Len(bytes), pbOID |-> bytes, pbNull |-> FALSE]
\* the absent OID that verify passes to its last check: NULL, 0
NoOid == [cbOID |-> 0, pbOID |-> <<>>, pbNull |-> TRUE]

SymCryptMd5OidList ==
    << Oid(<<6, 8, 42, 134, 72, 134, 247, 13, 2, 5, 5, 0>>),
       Oid(<<6, 8, 42, 134, 72, 134, 247, 13, 2, 5>>) >>
SymCryptSha1OidList ==
    << Oid(<<6, 5, 43, 14, 3, 2, 26, 5, 0>>),
       Oid(<<6, 5, 43, 14, 3, 2, 26>>) >>
SymCryptSha256OidList ==
    << Oid(<<6, 9, 96, 134, 72, 1, 101, 3, 4, 2, 1, 5, 0>>),
       Oid(<<6, 9, 96, 134, 72, 1, 101, 3, 4, 2, 1>>) >>
SymCryptSha384OidList ==
    << Oid(<<6, 9, 96, 134, 72, 1, 101, 3, 4, 2, 2, 5, 0>>),
       Oid(<<6, 9, 96, 134, 72, 1, 101, 3, 4, 2, 2>>) >>
SymCryptSha512OidList ==
    << Oid(<<6, 9, 96, 134, 72, 1, 101, 3, 4, 2, 3, 5, 0>>),
       Oid(<<6, 9, 96, 134, 72, 1, 101, 3, 4, 2, 3>>) >>

\* cbEncoding: [bad |-> the NULL-OID-with-length refusal, cb |-> the length of T]
Pkcs1SigEncodingLen(cbHash, oid, fInsertASN1) ==
    IF fInsertASN1
    THEN IF ~oid.pbNull /\ oid.cbOID > 0
         THEN [bad |-> FALSE, cb |-> 6 + oid.cbOID + cbHash]
         ELSE IF oid.cbOID > 0
         THEN [bad |-> TRUE, cb |-> 0]
         ELSE [bad |-> FALSE, cb |-> 2 + cbHash]
    ELSE [bad |-> FALSE, cb |-> cbHash]

\* block type, delimiter and the 0xFF padding
Pkcs1SigFrame(pbPKCS1Format, cbPadding) ==
    Write(Poke(Poke(Poke(pbPKCS1Format, 0, 0), 1, 1), 2 + cbPadding, 0),
          2, Fill(cbPadding, 255))

\* (mutation) the outer SEQUENCE carries the length of the whole encoding
Pkcs1SigAlgorithmFullLength(buf, at, cbEncoding, oid) ==
    Write(Poke(Poke(Poke(Poke(buf,
            at + 1, ASN1_SEQUENCE_BYTE),
            at + 2, cbEncoding % 256),
            at + 3, ASN1_SEQUENCE_BYTE),
            at + 4, oid.cbOID % 256),
          at + 5, oid.pbOID)

\* "insert the algorithm encoding": both SEQUENCE headers and the OID, from at + 1
Pkcs1SigAlgorithm(buf, at, cbEncoding, oid) ==
    Write(Poke(Poke(Poke(Poke(buf,
            at + 1, ASN1_SEQUENCE_BYTE),
            at + 2, ((cbEncoding % 256) - 2) % 256),
            at + 3, ASN1_SEQUENCE_BYTE),
            at + 4, oid.cbOID % 256),
          at + 5, oid.pbOID)

\* "insert the octet string byte, length of the hash and the hash value"
Pkcs1SigOctetString(buf, at, pbHash) ==
    Write(Poke(Poke(buf, at, ASN1_OCTET_STRING_BYTE), at + 1, Len(pbHash) % 256),
          at + 2, pbHash)

\* the writes of apply once its checks have passed
Pkcs1SigEncode(pbHash, oid, fInsertASN1, cbEncoding, pbPKCS1Format) ==
    LET cbPadding == Len(pbPKCS1Format) - 3 - cbEncoding
        hasOid == ~oid.pbNull /\ oid.cbOID > 0
        cbOidOffset == IF hasOid THEN 5 ELSE 1
    IN  IF fInsertASN1
        THEN Pkcs1SigOctetString(
                 IF hasOid
                 THEN Pkcs1SigAlgorithm(Pkcs1SigFrame(pbPKCS1Format, cbPadding),
                                        2 + cbPadding, cbEncoding, oid)
                 ELSE Pkcs1SigFrame(pbPKCS1Format, cbPadding),
                 2 + cbPadding + cbOidOffset + oid.cbOID, pbHash)
        ELSE Write(Pkcs1SigFrame(pbPKCS1Format, cbPadding), 3 + cbPadding, pbHash)

\* (mutation) apply takes an encoding of any length
Pkcs1SigBadArgsNoLimit(cbHash, oid, flags, cbPKCS1Format) ==
    \/ FlagAndNot(flags, SYMCRYPT_FLAG_RSA_PKCS1_NO_ASN1) # 0
    \/ Pkcs1SigEncodingLen(cbHash, oid,
           FlagAnd(flags, SYMCRYPT_FLAG_RSA_PKCS1_NO_ASN1) = 0).bad
    \/ 3 + 8 + Pkcs1SigEncodingLen(cbHash, oid,
           FlagAnd(flags, SYMCRYPT_FLAG_RSA_PKCS1_NO_ASN1) = 0).cb > cbPKCS1Format

\* the checks of apply on flags, OID and lengths
Pkcs1SigBadArgs(cbHash, oid, flags, cbPKCS1Format) ==
    \/ FlagAndNot(flags, SYMCRYPT_FLAG_RSA_PKCS1_NO_ASN1) # 0
    \/ Pkcs1SigEncodingLen(cbHash, oid,
           FlagAnd(flags, SYMCRYPT_FLAG_RSA_PKCS1_NO_ASN1) = 0).bad
    \/ Pkcs1SigEncodingLen(cbHash, oid,
           FlagAnd(flags, SYMCRYPT_FLAG_RSA_PKCS1_NO_ASN1) = 0).cb > 128
    \/ 3 + 8 + Pkcs1SigEncodingLen(cbHash, oid,
           FlagAnd(flags, SYMCRYPT_FLAG_RSA_PKCS1_NO_ASN1) = 0).cb > cbPKCS1Format

\* SymCryptRsaPkcs1ApplySignaturePadding: the return value and the target buffer
SymCryptRsaPkcs1ApplySignaturePadding(pbHash, oid, flags, pbPKCS1Format) ==
    IF Pkcs1SigBadArgs(Len(pbHash), oid, flags, Len(pbPKCS1Format))
    THEN [scError |-> SYMCRYPT_INVALID_ARGUMENT, buf |-> pbPKCS1Format]
    ELSE [scError |-> SYMCRYPT_NO_ERROR,
          buf |-> Pkcs1SigEncode(
                      pbHash, oid, FlagAnd(flags, SYMCRYPT_FLAG_RSA_PKCS1_NO_ASN1) = 0,
                      Pkcs1SigEncodingLen(Len(pbHash), oid,
                          FlagAnd(flags, SYMCRYPT_FLAG_RSA_PKCS1_NO_ASN1) = 0).cb,
                      pbPKCS1Format)]

\* (mutation) the comparison stops one byte short of the end of the block
Pkcs1SigCompareShort(ap, pbPKCS1Format) ==
    IF ap.scError # SYMCRYPT_NO_ERROR
    THEN [scError |-> ap.scError, pbScratch |-> ap.buf]
    ELSE IF SymCryptEqual(SubSeq(ap.buf, 1, Len(ap.buf) - 1),
                          SubSeq(pbPKCS1Format, 1, Len(ap.buf) - 1))
    THEN [scError |-> SYMCRYPT_NO_ERROR, pbScratch |-> ap.buf]
    ELSE [scError |-> SYMCRYPT_SIGNATURE_VERIFICATION_FAILURE, pbScratch |-> ap.buf]

\* what Check returns once apply has run into the scratch buffer: apply's error,
\* or the outcome of the comparison with the observed block
Pkcs1SigCompare(ap, pbPKCS1Format) ==
    IF ap.scError # SYMCRYPT_NO_ERROR
    THEN [scError |-> ap.scError, pbScratch |-> ap.buf]
    ELSE IF SymCryptEqual(ap.buf, pbPKCS1Format)
    THEN [scError |-> SYMCRYPT_NO_ERROR, pbScratch |-> ap.buf]
    ELSE [scError |-> SYMCRYPT_SIGNATURE_VERIFICATION_FAILURE, pbScratch |-> ap.buf]

\* SymCryptRsaPkcs1CheckSignaturePadding: the return value and the scratch buffer
\* (of cbPKCS1Format bytes) after the call
SymCryptRsaPkcs1CheckSignaturePadding(pbHash, oid, pbPKCS1Format, flags, pbScratch) ==
    Pkcs1SigCompare(
        SymCryptRsaPkcs1ApplySignaturePadding(
            pbHash, oid, flags, SymCryptWipe(pbScratch, 0, Len(pbPKCS1Format))),
        pbPKCS1Format)

\* verify's scError, scratch buffer and record of checks after one more Check
\* (with OID oid and flags) has returned ck
Pkcs1SigAfterCheck(st, oid, flags, ck) ==
    [scError |-> ck.scError, pbScratch |-> ck.pbScratch,
     log |-> Append(st.log, [oid |-> oid, flags |-> flags, scError |-> ck.scError])]

\* (mutation) every round of the loop checks the first entry of the set
Pkcs1SigVerifyEntryFirst(pbHash, pHashOIDs, pbPKCS1Format, n, st) ==
    Pkcs1SigAfterCheck(st, pHashOIDs[1], 0,
        SymCryptRsaPkcs1CheckSignaturePadding(
            pbHash, pHashOIDs[1], pbPKCS1Format, 0, st.pbScratch))

\* verify's state after the Check of entry n
Pkcs1SigVerifyEntry(pbHash, pHashOIDs, pbPKCS1Format, n, st) ==
    Pkcs1SigAfterCheck(st, pHashOIDs[n + 1], 0,
        SymCryptRsaPkcs1CheckSignaturePadding(
            pbHash, pHashOIDs[n + 1], pbPKCS1Format, 0, st.pbScratch))

\* (mutation) the loop does not stop at the first entry that matches
Pkcs1SigVerifyNoBreak(st) == FALSE

\* the loop's "if (scError == SYMCRYPT_NO_ERROR) break"
Pkcs1SigVerifyBreak(st) == st.scError = SYMCRYPT_NO_ERROR

\* the for loop over the OID entries from entry n on; st carries scError, the
\* scratch buffer and the checks made so far
RECURSIVE Pkcs1SigVerifyLoop(_, _, _, _, _)
Pkcs1SigVerifyLoop(pbHash, pHashOIDs, pbPKCS1Format, n, st) ==
    IF ~(n < Len(pHashOIDs)) THEN st
    ELSE IF Pkcs1SigVerifyBreak(
                Pkcs1SigVerifyEntry(pbHash, pHashOIDs, pbPKCS1Format, n, st))
    THEN Pkcs1SigVerifyEntry(pbHash, pHashOIDs, pbPKCS1Format, n, st)
    ELSE Pkcs1SigVerifyLoop(pbHash, pHashOIDs, pbPKCS1Format, n + 1,
             Pkcs1SigVerifyEntry(pbHash, pHashOIDs, pbPKCS1Format, n, st))

\* the condition of the last Check: no OID set, or the entries failed and the
\* OID is optional
Pkcs1SigVerifyRetry(oidsNull, st, flags) ==
    \/ oidsNull
    \/ (st.scError # SYMCRYPT_NO_ERROR
        /\ FlagAnd(flags, SYMCRYPT_FLAG_RSA_PKCS1_OPTIONAL_HASH_OID) # 0)

\* the part of verify after the loop
Pkcs1SigVerifyTail(pbHash, oidsNull, pbPKCS1Format, flags, st) ==
    IF Pkcs1SigVerifyRetry(oidsNull, st, flags)
    THEN Pkcs1SigAfterCheck(st, NoOid, SYMCRYPT_FLAG_RSA_PKCS1_NO_ASN1,
             SymCryptRsaPkcs1CheckSignaturePadding(
                 pbHash, NoOid, pbPKCS1Format, SYMCRYPT_FLAG_RSA_PKCS1_NO_ASN1,
                 st.pbScratch))
    ELSE st

\* (mutation) verify tests its flags against the flag of apply
Pkcs1SigVerifyBadFlagsAsApply(flags) ==
    FlagAndNot(flags, SYMCRYPT_FLAG_RSA_PKCS1_NO_ASN1) # 0

\* verify's test (flags & ~SYMCRYPT_FLAG_RSA_PKCS1_OPTIONAL_HASH_OID) != 0
Pkcs1SigVerifyBadFlags(flags) ==
    FlagAndNot(flags, SYMCRYPT_FLAG_RSA_PKCS1_OPTIONAL_HASH_OID) # 0

\* SymCryptRsaPkcs1VerifySignaturePadding; oidsNull: pHashOIDs == NULL, otherwise
\* pHashOIDs holds nOIDCount = Len(pHashOIDs) entries
SymCryptRsaPkcs1VerifySignaturePadding(pbHash, oidsNull, pHashOIDs, pbPKCS1Format, flags, pbScratch) ==
    IF Pkcs1SigVerifyBadFlags(flags)
    THEN [scError |-> SYMCRYPT_INVALID_ARGUMENT, pbScratch |-> pbScratch, log |-> <<>>]
    ELSE Pkcs1SigVerifyTail(pbHash, oidsNull, pbPKCS1Format, flags,
             IF ~oidsNull
             THEN Pkcs1SigVerifyLoop(pbHash, pHashOIDs, pbPKCS1Format, 0,
                      [scError |-> SYMCRYPT_NO_ERROR, pbScratch |-> pbScratch,
                       log |-> <<>>])
             ELSE [scError |-> SYMCRYPT_NO_ERROR, pbScratch |-> pbScratch, log |-> <<>>])

\* digest lengths around the limit of 0x80 bytes for the encoding: with the two
\* bytes of a bare OCTET STRING at the limit, one above it, and above it alone
LongDigestLens == {126, 127, 129}

\* the digests of the OID table: the digest length and the two-entry OID list
SigTableDigests ==
    { [name |-> "MD5", cbHash |-> 16, oids |-> SymCryptMd5OidList],
      [name |-> "SHA1", cbHash |-> 20, oids |-> SymCryptSha1OidList],
      [name |-> "SHA256", cbHash |-> 32, oids |-> SymCryptSha256OidList],
      [name |-> "SHA384", cbHash |-> 48, oids |-> SymCryptSha384OidList],
      [name |-> "SHA512", cbHash |-> 64, oids |-> SymCryptSha512OidList] }

\* the digests apply is called with: those of the table, and long ones that
\* borrow the OIDs of SHA-512
SigDigests ==
    SigTableDigests
    \cup {[name |-> "long", cbHash |-> cb, oids |-> SymCryptSha512OidList] :
              cb \in LongDigestLens}

\* the digest values of cb bytes the harness signs: one of different bytes, and
\* the all-zero one
DigestValues(cb) == {[j \in 1..cb |-> (j * 7) % 256], Fill(cb, 0)}
\* digest values of the same length as h that differ from it in one or all bytes
OtherDigests(h) ==
    { [j \in 1..Len(h) |-> IF j = Len(h) THEN (h[j] + 1) % 256 ELSE h[j]],
      [j \in 1..Len(h) |-> 255 - h[j]] }

\* an OID that is not in digest d's list: the long form of another digest
ForeignOid(d) == IF d.name = "SHA256" THEN SymCryptSha384OidList[1]
                 ELSE SymCryptSha256OidList[1]

\* the OIDs apply is called with for digest d: long, short, none (NULL, 0),
\* NULL with a nonzero length, non-null with length 0
SigApplyOids(d) ==
    { d.oids[1], d.oids[2], NoOid,
      [cbOID |-> 1, pbOID |-> <<>>, pbNull |-> TRUE],
      [cbOID |-> 0, pbOID |-> <<6>>, pbNull |-> FALSE] }

\* block lengths tried for an encoding of tLen bytes of digest d: one short of
\* the minimum, the minimum, up to MaxSigExtra more, the least length that
\* takes every encoding of d, and for SHA-256 the 256 bytes of a 2048-bit modulus
SigBlockLens(d, tLen) ==
    ((3 + 8 + tLen - 1)..(3 + 8 + tLen + MaxSigExtra))
        \cup {3 + 8 + 6 + d.oids[1].cbOID + d.cbHash}
        \cup (IF d.name = "SHA256" THEN {256} ELSE {})

\* SymCryptRsaPkcs1ApplySignaturePadding on a digest of the table
SigApplyCall ==
    /\ pc = "idle"
    /\ \E d \in SigDigests, flags \in 0..4, fill \in FillBytes :
       \E pbHash \in DigestValues(d.cbHash), oid \in SigApplyOids(d) :
       \E k \in SigBlockLens(d,
                   Pkcs1SigEncodingLen(d.cbHash, oid,
                       FlagAnd(flags, SYMCRYPT_FLAG_RSA_PKCS1_NO_ASN1) = 0).cb) :
        LET ap == SymCryptRsaPkcs1ApplySignaturePadding(pbHash, oid, flags, Fill(k, fill))
        IN  /\ inp' = [digest |-> d, pbHash |-> pbHash, oid |-> oid, flags |-> flags,
                       cbPKCS1Format |-> k, prior |-> Fill(k, fill)]
            /\ scError' = ap.scError
            /\ EM' = ap.buf
    /\ op' = "Pkcs1ApplySignaturePadding"
    /\ pc' = "applied"
    /\ UNCHANGED <<i, rin, ret, log, callVars>>

\* indices at which the harness alters a block: the block type, the byte before
\* the digest, the last byte of the digest
TamperAt(k, cbHash) == {1, k - cbHash - 1, k - 1}

\* the caller alters one byte of the block that apply wrote
SigTamper ==
    /\ pc = "applied"
    /\ op = "Pkcs1ApplySignaturePadding"
    /\ scError = SYMCRYPT_NO_ERROR
    /\ \E at \in TamperAt(Len(EM), Len(inp.pbHash)) :
         EM' = Poke(EM, at, ByteXor(At(EM, at), 1))
    /\ op' = "Pkcs1ApplySignaturePadding+tamper"
    /\ UNCHANGED <<pc, inp, scError, i, rin, ret, log, callVars>>

SigApplied ==
    /\ pc = "applied"
    /\ op \in {"Pkcs1ApplySignaturePadding", "Pkcs1ApplySignaturePadding+tamper"}
    /\ scError = SYMCRYPT_NO_ERROR

\* prior contents of the scratch buffer: a fill byte, or the observed block itself
SigScratches(blk) == {Fill(Len(blk), fill) : fill \in FillBytes} \cup {blk}

\* flag words Check refuses: one that Verify knows, and NO_ASN1 next to a bit
\* that no operation knows
SigCheckBadFlags == {2, 5}

\* flag words Verify refuses: NO_ASN1, NO_ASN1 next to OPTIONAL_HASH_OID, and
\* OPTIONAL_HASH_OID next to a bit that no operation knows
SigVerifyBadFlags == {1, 3, 6}

\* SymCryptRsaPkcs1CheckSignaturePadding on the block that apply wrote, with the
\* digest of apply or another one of the same length
SigCheckCall ==
    /\ SigApplied
    /\ \E flags \in {inp.flags, 0} \cup SigCheckBadFlags :
       \E pbHash \in IF flags \in SigCheckBadFlags THEN {inp.pbHash}
                     ELSE {inp.pbHash} \cup OtherDigests(inp.pbHash),
          oid \in IF flags \in SigCheckBadFlags THEN {inp.oid}
                  ELSE {inp.oid, inp.digest.oids[1]},
          pbScratch \in SigScratches(EM) :
        LET ck == SymCryptRsaPkcs1CheckSignaturePadding(pbHash, oid, EM, flags, pbScratch)
        IN  /\ rin' = [call |-> "Check", pbHash |-> pbHash, oid |-> oid,
                       pbPKCS1Format |-> EM, flags |-> flags, prior |-> pbScratch]
            /\ ret' = [scError |-> ck.scError, pbScratch |-> ck.pbScratch]
            /\ log' = <<>>
    /\ pc' = "done"
    /\ UNCHANGED <<op, inp, EM, scError, i, callVars>>

\* the OID sets verify is called with for digest d: every list of at most
\* MaxOids different entries drawn from the two forms of d and a foreign OID
SigOidSets(d) ==
    UNION { {s \in [1..n -> {d.oids[1], d.oids[2], ForeignOid(d)}] :
                \A a, b \in 1..n : a # b => s[a] # s[b]} : n \in 0..MaxOids }

\* SymCryptRsaPkcs1VerifySignaturePadding on the block that apply wrote
SigVerifyCall ==
    /\ SigApplied
    /\ \E oidsNull \in BOOLEAN, fill \in FillBytes,
          flags \in {0, SYMCRYPT_FLAG_RSA_PKCS1_OPTIONAL_HASH_OID}
                       \cup SigVerifyBadFlags :
       \E pHashOIDs \in IF oidsNull THEN {<<>>}
                        ELSE IF flags \in SigVerifyBadFlags THEN {inp.digest.oids}
                        ELSE SigOidSets(inp.digest) :
        LET vf == SymCryptRsaPkcs1VerifySignaturePadding(
                      inp.pbHash, oidsNull, pHashOIDs, EM, flags, Fill(Len(EM), fill))
        IN  /\ rin' = [call |-> "Verify", pbHash |-> inp.pbHash, oidsNull |-> oidsNull,
                       pHashOIDs |-> pHashOIDs, pbPKCS1Format |-> EM, flags |-> flags,
                       prior |-> Fill(Len(EM), fill)]
            /\ ret' = [scError |-> vf.scError, pbScratch |-> vf.pbScratch]
            /\ log' = vf.log
    /\ pc' = "done"
    /\ UNCHANGED <<op, inp, EM, scError, i, callVars>>

(***************************************************************************)
(* PSS:  EM = maskedDB || H || 0xbc,  DB = PS2 || 0x01 || salt,            *)
(*       H = Hash(8 zero bytes || mHash || salt)                           *)
(***************************************************************************)
\* the corner case nBitsOfModulus == 1 mod 8: the leading byte is skipped
\* (pbPSSFormat++, cbPSSFormat--)
PssSkip(nBitsOfModulus) == IF nBitsOfModulus % 8 = 1 THEN 1 ELSE 0

\* dwZeroBits = 8*cbPSSFormat + 1 - nBitsOfModulus, cbPSSFormat after the skip;
\* with cbPSSFormat + skip = ceil(nBitsOfModulus / 8) it lies in 0..7
PssZeroBits(cbPSSFormat, nBitsOfModulus) == 8 * cbPSSFormat + 1 - nBitsOfModulus

\* (mutation) no bit is masked off
PssLowMaskAll(dwZeroBits) == 255

\* (BYTE)(0xff >> dwZeroBits)
PssLowMask(dwZeroBits) == 255 \div (2 ^ dwZeroBits)

\* (BYTE)(0xff << (8 - dwZeroBits))
PssHighMask(dwZeroBits) == (255 * (2 ^ (8 - dwZeroBits))) % 256

\* "set up the M Prime": 8 wiped bytes, the digest, the salt
PssMPrime(pbHash, salt) == Fill(8, 0) \o pbHash \o salt

\* (mutation) the separator byte of DB is written as 0x00
PssDBNoSeparator(cbDB, salt) == Fill(cbDB - Len(salt) - 1, 0) \o <<0>> \o salt

\* DB: cbPadding2 = cbDB - cbSalt - 1 wiped bytes, 0x01, the salt
PssDB(cbDB, salt) == Fill(cbDB - Len(salt) - 1, 0) \o <<1>> \o salt

\* the last writes of apply: H at cbDB, DB ^ mask at 0, the zeroed bits, 0xbc
PssAssemble(em, cbDB, H, maskedDB, dwZeroBits) ==
    Poke(Poke(Write(Write(em, cbDB, H), 0, maskedDB),
              0, ByteAnd(maskedDB[1], PssLowMask(dwZeroBits))),
         Len(em) - 1, 188)

\* DB ^ MGF(H) for the hash H of M'
PssMaskDB(hashAlgorithm, cbDB, H, salt) ==
    SeqXor(PssDB(cbDB, salt), SymCryptRsaPaddingMaskGeneration(hashAlgorithm, H, cbDB))

\* the writes of apply, once its checks have passed, on the cbPSSFormat bytes em
\* that follow the skipped byte
PssEncode(pbHash, hashAlgorithm, salt, nBitsOfModulus, em) ==
    PssAssemble(em, Len(em) - (SymCryptHashResultSize(hashAlgorithm) + 1),
        SymCryptHash(hashAlgorithm, PssMPrime(pbHash, salt)),
        PssMaskDB(hashAlgorithm,
                  Len(em) - (SymCryptHashResultSize(hashAlgorithm) + 1),
                  SymCryptHash(hashAlgorithm, PssMPrime(pbHash, salt)), salt),
        PssZeroBits(Len(em), nBitsOfModulus))

\* the target buffer after "pbPSSFormat[0] = 0" of the corner case
PssLead(nBitsOfModulus, pbPSSFormat) ==
    IF PssSkip(nBitsOfModulus) = 1 THEN Poke(pbPSSFormat, 0, 0) ELSE pbPSSFormat

\* (variant) the sum is formed without wrapping: a salt length near the top of
\* SIZE_T makes it larger than every block
PssTooShortNoWrap(cbPSSFormat, cbHashAlg, cbSalt) ==
    cbSalt < 0 \/ cbPSSFormat < cbHashAlg + cbSalt + 2

\* cbPSSFormat < (cbHashAlg + cbSalt + 2) on SIZE_T. A salt length in the top
\* half of SIZE_T is kept as the negative number it is congruent to, so the
\* sum wraps exactly when it comes out as a small non-negative number
PssTooShort(cbPSSFormat, cbHashAlg, cbSalt) ==
    SizeLess(cbPSSFormat, cbHashAlg + cbSalt + 2)

\* the call does not come back with a value of its own: it has written or read
\* far outside its buffers
UNDEFINED_BEHAVIOUR == "undefined"

\* apply past its length test with a wrapped salt length: the random source is
\* asked for, or memcpy is given, nearly SIZE_MAX bytes for the scratch buffer;
\* only an error of the random source is returned as a value
PssSaltOverrun(saltNull, rnd) ==
    IF saltNull /\ rnd.err # SYMCRYPT_NO_ERROR THEN rnd.err ELSE UNDEFINED_BEHAVIOUR

\* SymCryptRsaPssApplySignaturePadding: the return value and the target buffer
\* (non-null, of cbPSSFormat = Len(pbPSSFormat) bytes). saltNull: pbSalt == NULL,
\* and then rnd is what SymCryptCallbackRandom returns for cbSalt bytes.
SymCryptRsaPssApplySignaturePadding(pbHash, hashAlgorithm, saltNull, pbSalt, cbSalt, nBitsOfModulus, flags, pbPSSFormat, rnd) ==
    IF Len(pbPSSFormat) = 0
    THEN [scError |-> SYMCRYPT_INVALID_ARGUMENT, buf |-> pbPSSFormat]
    ELSE IF \/ flags # 0
            \/ PssTooShort(Len(pbPSSFormat) - PssSkip(nBitsOfModulus),
                           SymCryptHashResultSize(hashAlgorithm), cbSalt)
    THEN [scError |-> SYMCRYPT_INVALID_ARGUMENT,
          buf |-> PssLead(nBitsOfModulus, pbPSSFormat)]
    ELSE IF cbSalt < 0
    THEN [scError |-> PssSaltOverrun(saltNull, rnd),
          buf |-> PssLead(nBitsOfModulus, pbPSSFormat)]
    ELSE IF saltNull /\ rnd.err # SYMCRYPT_NO_ERROR
    THEN [scError |-> rnd.err, buf |-> PssLead(nBitsOfModulus, pbPSSFormat)]
    ELSE [scError |-> SYMCRYPT_NO_ERROR,
          buf |-> Write(PssLead(nBitsOfModulus, pbPSSFormat),
                        PssSkip(nBitsOfModulus),
                        PssEncode(pbHash, hashAlgorithm,
                                  IF saltNull THEN rnd.bytes ELSE Slice(pbSalt, 0, cbSalt),
                                  nBitsOfModulus,
                                  Slice(pbPSSFormat, PssSkip(nBitsOfModulus),
                                        Len(pbPSSFormat) - PssSkip(nBitsOfModulus))))]

\* pbPSSFormat[0] after the skip; with cbPSSFormat = 0 the read is past the end
\* of the block and yields the byte oob
PssFirst(em, oob) == IF Len(em) > 0 THEN em[1] ELSE oob

\* pbPSSFormat[cbPSSFormat - 1] after the skip; with cbPSSFormat = 0 this is the
\* skipped leading byte lead
PssLast(em, lead) == IF Len(em) > 0 THEN em[Len(em)] ELSE lead

\* (mutation) the trailer byte is not looked at
PssBadBlockNoTrailer(em, lead, oob, cbHashAlg, cbSalt, nBitsOfModulus) ==
    \/ ByteAnd(PssFirst(em, oob),
               PssHighMask(PssZeroBits(Len(em), nBitsOfModulus))) # 0
    \/ Len(em) < cbHashAlg + cbSalt + 2

\* the check of the zero bits, the trailer byte and the length
PssBadBlock(em, lead, oob, cbHashAlg, cbSalt, nBitsOfModulus) ==
    \/ ByteAnd(PssFirst(em, oob),
               PssHighMask(PssZeroBits(Len(em), nBitsOfModulus))) # 0
    \/ PssLast(em, lead) # 188
    \/ PssTooShort(Len(em), cbHashAlg, cbSalt)

\* pbDBMask after the xor with the block
PssXorDB(hashAlgorithm, em, cbDB) ==
    SeqXor(Slice(em, 0, cbDB),
           SymCryptRsaPaddingMaskGeneration(
               hashAlgorithm, Slice(em, cbDB, SymCryptHashResultSize(hashAlgorithm)), cbDB))

\* "mask off the first dwZeroBits"
PssMaskOff(pbDBMask, dwZeroBits) ==
    Poke(pbDBMask, 0, ByteAnd(pbDBMask[1], PssLowMask(dwZeroBits)))

\* the recovered DB
PssUnmask(hashAlgorithm, em, nBitsOfModulus) ==
    PssMaskOff(PssXorDB(hashAlgorithm, em,
                        Len(em) - (SymCryptHashResultSize(hashAlgorithm) + 1)),
               PssZeroBits(Len(em), nBitsOfModulus))

\* "check that the padding 2 on the DB is all zeros", "ensure the 0x01 byte"
PssPaddingOk(pbDBMask, cbSalt) ==
    /\ \A j \in 0..(Len(pbDBMask) - cbSalt - 2) : At(pbDBMask, j) = 0
    /\ At(pbDBMask, Len(pbDBMask) - cbSalt - 1) = 1

\* (mutation) the hash of M' is not compared with the block
PssHashAny(pbHash, hashAlgorithm, cbSalt, em, pbDBMask) == TRUE

\* the hash of the rebuilt M' equals the H of the block
PssHashOk(pbHash, hashAlgorithm, cbSalt, em, pbDBMask) ==
    SymCryptEqual(
        Slice(em, Len(pbDBMask), SymCryptHashResultSize(hashAlgorithm)),
        SymCryptHash(hashAlgorithm,
            PssMPrime(pbHash, Slice(pbDBMask, Len(pbDBMask) - cbSalt, cbSalt))))

\* verify past its length test with a wrapped salt length: the padding loop
\* and the 0x01 test run into scratch bytes behind pbDBMask that this call has
\* not written, so they may fail; if they pass, memcpy is given nearly SIZE_MAX
\* bytes
PssVerifyOverrun == {SYMCRYPT_INVALID_ARGUMENT, UNDEFINED_BEHAVIOUR}

\* verify on the bytes em that follow the skipped byte; ub is the outcome of the
\* overrun when there is one
PssVerifyBlock(pbHash, hashAlgorithm, cbSalt, em, lead, oob, nBitsOfModulus, ub) ==
    IF PssBadBlock(em, lead, oob, SymCryptHashResultSize(hashAlgorithm), cbSalt,
                   nBitsOfModulus)
    THEN SYMCRYPT_INVALID_ARGUMENT
    ELSE IF cbSalt < 0
    THEN ub
    ELSE IF ~PssPaddingOk(PssUnmask(hashAlgorithm, em, nBitsOfModulus), cbSalt)
    THEN SYMCRYPT_INVALID_ARGUMENT
    ELSE IF ~PssHashOk(pbHash, hashAlgorithm, cbSalt, em,
                       PssUnmask(hashAlgorithm, em, nBitsOfModulus))
    THEN SYMCRYPT_INVALID_ARGUMENT
    ELSE SYMCRYPT_NO_ERROR

\* SymCryptRsaPssVerifySignaturePadding: the return value, for a non-null block
SymCryptRsaPssVerifySignaturePadding(pbHash, hashAlgorithm, cbSalt, pbPSSFormat, nBitsOfModulus, flags, oob, ub) ==
    IF flags # 0 \/ Len(pbPSSFormat) = 0
    THEN SYMCRYPT_INVALID_ARGUMENT
    ELSE IF PssSkip(nBitsOfModulus) = 1 /\ pbPSSFormat[1] # 0
    THEN SYMCRYPT_INVALID_ARGUMENT
    ELSE PssVerifyBlock(pbHash, hashAlgorithm, cbSalt,
             Slice(pbPSSFormat, PssSkip(nBitsOfModulus),
                   Len(pbPSSFormat) - PssSkip(nBitsOfModulus)),
             pbPSSFormat[1], oob, nBitsOfModulus, ub)

\* what lines 989-1021 of verify read of the caller's block, as indices from
\* its first byte, and the shift count they use: byte 0 when the modulus has a
\* leading byte to skip, pbPSSFormat[0] after the skip, and, when its top bits
\* are clear, pbPSSFormat[cbPSSFormat - 1]
PssVerifyReads(pbPSSFormat, nBitsOfModulus, flags, oob) ==
    IF flags # 0 \/ Len(pbPSSFormat) = 0
    THEN [reads |-> {}, shifts |-> FALSE, dwZeroBits |-> 0]
    ELSE IF PssSkip(nBitsOfModulus) = 1 /\ pbPSSFormat[1] # 0
    THEN [reads |-> {0}, shifts |-> FALSE, dwZeroBits |-> 0]
    ELSE LET skip == PssSkip(nBitsOfModulus)
             cbPSSFormat == Len(pbPSSFormat) - skip
             dwZeroBits == PssZeroBits(cbPSSFormat, nBitsOfModulus)
             first == PssFirst(Slice(pbPSSFormat, skip, cbPSSFormat), oob)
         IN  [reads |-> (IF skip = 1 THEN {0} ELSE {})
                        \cup {skip + 0}
                        \cup (IF ByteAnd(first, PssHighMask(dwZeroBits)) = 0
                              THEN {skip + (cbPSSFormat - 1)} ELSE {}),
              shifts |-> TRUE,
              dwZeroBits |-> dwZeroBits]

\* moduli of the harness: the two smallest with a leading byte to skip, and the
\* ten sizes up to MaxPssBits
PssBits == {1, 9} \cup (MaxPssBits - 9)..MaxPssBits

\* k = ceil(nBitsOfModulus / 8)
PssBlockLen(nBitsOfModulus) == (nBitsOfModulus + 7) \div 8

\* digests signed and verified: two of the hash's length, one longer
PssDigests(cbHashAlg) == {Fill(cbHashAlg, 17), Fill(cbHashAlg, 18), Fill(cbHashAlg + 1, 17)}

\* salt lengths near the top of SIZE_T, as the negative numbers they are
\* congruent to: SIZE_MAX - 1 and SIZE_MAX - 3
PssWrappedSaltLens == {-2, -4}

\* bytes of a salt the caller supplies
SaltBytes == {0, 1}

\* bytes read past the end of a block
OobBytes == {0, 255}

\* SymCryptRsaPssApplySignaturePadding into a block of ceil(nBitsOfModulus/8) bytes
PssApplyCall ==
    /\ pc = "idle"
    /\ \E hashAlgorithm \in HashAlgs, nBits \in PssBits, flags \in NoFlagValues,
          saltNull \in BOOLEAN, cbSalt \in (0..MaxSaltLen) \cup PssWrappedSaltLens,
          fill \in FillBytes :
       \E pbHash \in PssDigests(SymCryptHashResultSize(hashAlgorithm)),
          pbSalt \in IF saltNull THEN {<<>>} ELSE Strings(cbSalt, SaltBytes),
          rnd \in IF saltNull THEN SymCryptCallbackRandom(cbSalt)
                  ELSE {[err |-> SYMCRYPT_NO_ERROR, bytes |-> <<>>]} :
        LET ap == SymCryptRsaPssApplySignaturePadding(
                      pbHash, hashAlgorithm, saltNull, pbSalt, cbSalt, nBits, flags,
                      Fill(PssBlockLen(nBits), fill), rnd)
        IN  /\ inp' = [pbHash |-> pbHash, hashAlgorithm |-> hashAlgorithm,
                       saltNull |-> saltNull, pbSalt |-> pbSalt, cbSalt |-> cbSalt,
                       nBitsOfModulus |-> nBits, flags |-> flags,
                       cbPSSFormat |-> PssBlockLen(nBits),
                       prior |-> Fill(PssBlockLen(nBits), fill)]
            /\ scError' = ap.scError
            /\ EM' = ap.buf
            /\ log' = IF saltNull /\ ap.scError # SYMCRYPT_INVALID_ARGUMENT
                      THEN <<rnd>> ELSE <<>>
    /\ op' = "PssApplySignaturePadding"
    /\ pc' = "applied"
    /\ UNCHANGED <<i, rin, ret, callVars>>

\* the caller flips the lowest or the highest bit of the byte at index i of the
\* block
PssTamper ==
    /\ pc = "applied"
    /\ op = "PssApplySignaturePadding"
    /\ scError = SYMCRYPT_NO_ERROR
    /\ \E at \in 0..(Len(EM) - 1), bit \in {1, 128} :
         /\ EM' = Poke(EM, at, ByteXor(At(EM, at), bit))
         /\ i' = at
    /\ op' = "PssApplySignaturePadding+tamper"
    /\ UNCHANGED <<pc, inp, scError, rin, ret, log, callVars>>

\* SymCryptRsaPssVerifySignaturePadding on the block, for the modulus of apply,
\* with any digest and any salt length
PssVerifyCall ==
    /\ pc = "applied"
    /\ op \in {"PssApplySignaturePadding", "PssApplySignaturePadding+tamper"}
    /\ \E flags \in NoFlagValues, oob \in OobBytes, ub \in PssVerifyOverrun :
       \E pbHash \in IF flags # 0 THEN {inp.pbHash}
                     ELSE PssDigests(SymCryptHashResultSize(inp.hashAlgorithm)),
          cbSalt \in IF flags # 0 THEN {inp.cbSalt}
                     ELSE (0..MaxSaltLen) \cup PssWrappedSaltLens :
        /\ rin' = [pbHash |-> pbHash, hashAlgorithm |-> inp.hashAlgorithm,
                   cbSalt |-> cbSalt, pbPSSFormat |-> EM,
                   nBitsOfModulus |-> inp.nBitsOfModulus, flags |-> flags]
        /\ ret' = [scError |-> SymCryptRsaPssVerifySignaturePadding(
                                   pbHash, inp.hashAlgorithm, cbSalt, EM,
                                   inp.nBitsOfModulus, flags, oob, ub)]
        /\ frame' = PssVerifyReads(EM, inp.nBitsOfModulus, flags, oob)
    /\ pc' = "done"
    /\ UNCHANGED <<op, inp, EM, scError, i, log, shared, rgbCountAt, scratch>>

\* mask lengths asked of a hash: none, a few bytes, and the lengths around 255
\* and 256 hash blocks up to MaxMgfBlocks blocks
MgfMaskLens(cbHashAlg) ==
    (0..3) \cup {(c * cbHashAlg) - d : c \in 255..MaxMgfBlocks, d \in 0..(cbHashAlg - 1)}

\* SymCryptRsaPaddingMaskGeneration is entered with a buffer that extends
\* cbHashAlg bytes past pbDst + cbDst: the locals of lines 60-76 in rin, the
\* loop variable in i, the buffer in EM; log lists the counters hashed
MgfCall ==
    /\ pc = "idle"
    /\ \E hashAlgorithm \in HashAlgs, pbSrc \in StringsUpTo(0, MaxMgfSeed, {0, 255}),
          fill \in FillBytes :
       \E cbDst \in MgfMaskLens(SymCryptHashResultSize(hashAlgorithm)) :
         LET cbHashAlg == SymCryptHashResultSize(hashAlgorithm)
             cIterations == (cbDst + (cbHashAlg - 1)) \div cbHashAlg
         IN  /\ inp' = [hashAlgorithm |-> hashAlgorithm, pbSrc |-> pbSrc,
                        cbDst |-> cbDst, prior |-> Fill(cbDst + cbHashAlg, fill)]
             /\ EM' = Fill(cbDst + cbHashAlg, fill)
             /\ rin' = [cIterations |-> cIterations,
                        fAvoidDWORDReverse |-> (cIterations < 256),
                        rgbCount |-> Fill(4, 0), cbMaskRemaining |-> cbDst,
                        pbMaskIndex |-> 0]
             /\ pc' = IF 0 < cIterations THEN "mgf" ELSE "done"
    /\ i' = 0
    /\ log' = <<>>
    /\ op' = "RsaPaddingMaskGeneration"
    /\ UNCHANGED <<scError, ret, callVars>>

\* one pass of the for loop, then its i++ and test; the call returns on the
\* break or when the test fails
MgfIterate ==
    /\ pc = "mgf"
    /\ LET s == MaskGenStep(inp.hashAlgorithm, inp.pbSrc, i, rin.fAvoidDWORDReverse,
                            rin.rgbCount, rin.cbMaskRemaining, rin.pbMaskIndex, EM)
       IN  /\ EM' = s.pbDst
           /\ rin' = [rin EXCEPT !.rgbCount = s.rgbCount,
                                 !.cbMaskRemaining = s.cbMaskRemaining,
                                 !.pbMaskIndex = s.pbMaskIndex]
           /\ log' = Append(log, s.rgbCount)
           /\ i' = IF s.brk THEN i ELSE i + 1
           /\ pc' = IF s.brk \/ ~(i + 1 < rin.cIterations) THEN "done" ELSE "mgf"
    /\ UNCHANGED <<op, inp, scError, ret, callVars>>

(***************************************************************************)
(* The machine                                                             *)
(***************************************************************************)
\* the tables of lines 19-47 and the hash descriptors, as every call finds them
SharedData ==
    [oids |-> [MD5 |-> SymCryptMd5OidList, SHA1 |-> SymCryptSha1OidList,
               SHA256 |-> SymCryptSha256OidList, SHA384 |-> SymCryptSha384OidList,
               SHA512 |-> SymCryptSha512OidList],
     hashes |-> HashAlgs]

Init ==
    /\ pc = "idle"
    /\ op = "none"
    /\ inp = NoArgs
    /\ EM = <<>>
    /\ scError = "none"
    /\ i = 0
    /\ rin = NoArgs
    /\ ret = NoRet
    /\ log = <<>>
    /\ shared = SharedData
    /\ frame = <<>>
    /\ rgbCountAt = <<>>
    /\ scratch = <<>>

NextPkcs1Enc ==
    \/ Pkcs1EncApplyCall
    \/ Pkcs1EncApplyRedraw
    \/ Pkcs1EncApplyFinish
    \/ Pkcs1EncRemoveApplied
    \/ Pkcs1EncRemoveRaw

SpecPkcs1Enc == Init /\ [][NextPkcs1Enc]_vars

NextOaep ==
    \/ OaepApplyCall
    \/ OaepRemoveApplied
    \/ OaepRemoveRaw

SpecOaep == Init /\ [][NextOaep]_vars

NextPkcs1Sig ==
    \/ SigApplyCall
    \/ SigTamper
    \/ SigCheckCall
    \/ SigVerifyCall

SpecPkcs1Sig == Init /\ [][NextPkcs1Sig]_vars

NextPss ==
    \/ PssApplyCall
    \/ PssTamper
    \/ PssVerifyCall

SpecPss == Init /\ [][NextPss]_vars

\* the mask generation function on its own
NextMgf ==
    \/ MgfCall
    \/ MgfIterate

SpecMgf == Init /\ [][NextMgf]_vars

\* PKCS#1 encryption apply on its own; the call goes on running, and the random
\* source, asked again and again for one byte, in the end gives an error or a
\* byte other than 0x00
NextPkcs1EncApply ==
    \/ Pkcs1EncApplyCallShort
    \/ Pkcs1EncApplyRedraw
    \/ Pkcs1EncApplyFinish

SpecPkcs1EncApplyFair ==
    /\ Init
    /\ [][NextPkcs1EncApply]_vars
    /\ WF_vars(Pkcs1EncApplyRedrawEnds)
    /\ WF_vars(Pkcs1EncApplyFinish)

\* both encryption codecs
NextEncryption ==
    \/ NextPkcs1Enc
    \/ NextOaep

SpecEncryption == Init /\ [][NextEncryption]_vars

\* all four codecs
NextCodec ==
    \/ NextPkcs1Enc
    \/ NextOaep
    \/ NextPkcs1Sig
    \/ NextPss

SpecCodec == Init /\ [][NextCodec]_vars

(***************************************************************************)
(* Two calls in flight.  Each variable of the machine of one call holds    *)
(* one value per call; the calls were given disjoint buffers.  An OAEP     *)
(* apply is taken pass by pass through its two mask generations, each pass *)
(* in two steps: the count bytes are written, then hashed and copied.      *)
(***************************************************************************)
Calls == {1, 2}

\* block lengths of the OAEP calls reach MaxPairExtra past the least valid one
MaxPairExtra == 1

\* (mutation) rgbCount is one static buffer
MaskGenFrameStatic(t) == 1

\* where call t keeps rgbCount: line 63 declares it in the frame of the call
MaskGenFrame(t) == t

\* the automatic variables of mask generation at line 78, for a mask of cbDst
\* bytes; mgf tells the first call site (line 359) from the second (line 377)
MaskGenEnter(mgf, cbDst, cbHashAlg) ==
    [mgf |-> mgf,
     cIterations |-> (cbDst + (cbHashAlg - 1)) \div cbHashAlg,
     fAvoidDWORDReverse |-> ((cbDst + (cbHashAlg - 1)) \div cbHashAlg) < 256,
     cbMaskRemaining |-> cbDst,
     pbMaskIndex |-> 0]

\* SymCryptRsaOaepApplyEncryptionPadding of call t with a supplied seed, up to
\* the entry of the first mask generation
PairOaepApplyCall(t) ==
    /\ pc[t] = "idle"
    /\ \E hashAlgorithm \in shared.hashes, M \in StringsUpTo(0, 1, {1}),
          L \in {<<>>}, fill \in FillBytes :
       \E k \in ((2 * hashAlgorithm.cbResult) + 1)
                   ..((2 * hashAlgorithm.cbResult) + 2 + MaxPairExtra),
          pbSeed \in {<<>>, Fill(hashAlgorithm.cbResult, 90)} :
        LET cbHashAlg == SymCryptHashResultSize(hashAlgorithm)
            cbDB == k - (cbHashAlg + 1)
        IN  /\ inp' = [inp EXCEPT ![t] =
                          [pbPlaintext |-> M, hashAlgorithm |-> hashAlgorithm,
                           pbLabel |-> L, pbSeed |-> pbSeed, flags |-> 0,
                           cbOAEPFormat |-> k, prior |-> Fill(k, fill)]]
            /\ EM' = [EM EXCEPT ![t] = Fill(k, fill)]
            /\ IF OaepBadArgs(Len(M), cbHashAlg, FALSE, Len(pbSeed), 0, k)
               THEN /\ scError' = [scError EXCEPT ![t] = SYMCRYPT_INVALID_ARGUMENT]
                    /\ pc' = [pc EXCEPT ![t] = "done"]
                    /\ UNCHANGED <<frame, rgbCountAt, scratch>>
               ELSE /\ scratch' = [scratch EXCEPT ![t] =
                           [pbSeedInternal |-> OaepSeedInternal(pbSeed, cbHashAlg),
                            pbSeedMask |-> Fill(cbHashAlg, fill),
                            pbDB |-> OaepDB(M, hashAlgorithm, L, k),
                            pbDBMask |-> Fill(cbDB, fill)]]
                    /\ frame' = [frame EXCEPT ![t] = MaskGenEnter(1, cbDB, cbHashAlg)]
                    /\ rgbCountAt' = [rgbCountAt EXCEPT ![MaskGenFrame(t)] = Fill(4, 0)]
                    /\ pc' = [pc EXCEPT ![t] = "count"]
                    /\ UNCHANGED scError
    /\ op' = [op EXCEPT ![t] = "OaepApplyEncryptionPadding"]
    /\ i' = [i EXCEPT ![t] = 0]
    /\ UNCHANGED <<rin, ret, log, shared>>

\* lines 85-97 of the pass call t is in: the count bytes are written
PairMaskGenCount(t) ==
    /\ pc[t] = "count"
    /\ rgbCountAt' = [rgbCountAt EXCEPT ![MaskGenFrame(t)] =
                         MaskGenCount(rgbCountAt[MaskGenFrame(t)], i[t],
                                      frame[t].fAvoidDWORDReverse)]
    /\ pc' = [pc EXCEPT ![t] = "copy"]
    /\ UNCHANGED <<op, inp, EM, scError, i, rin, ret, log, shared, frame, scratch>>

\* the seed and the destination of the mask generation call t is in
PairMaskGenSrc(t) ==
    IF frame[t].mgf = 1 THEN scratch[t].pbSeedInternal
    ELSE Slice(EM[t], inp[t].hashAlgorithm.cbResult + 1, Len(scratch[t].pbDB))

PairMaskGenDst(t) ==
    IF frame[t].mgf = 1 THEN scratch[t].pbDBMask ELSE scratch[t].pbSeedMask

\* lines 99-117 of the pass call t is in, then i++ and the loop test. When the
\* first mask generation returns, lines 368-374 and the entry of the second
\* follow; when the second returns, lines 386-395
PairMaskGenCopy(t) ==
    /\ pc[t] = "copy"
    /\ LET cbHashAlg == SymCryptHashResultSize(inp[t].hashAlgorithm)
           s == MaskGenCopy(inp[t].hashAlgorithm, PairMaskGenSrc(t),
                            rgbCountAt[MaskGenFrame(t)], frame[t].cbMaskRemaining,
                            frame[t].pbMaskIndex, PairMaskGenDst(t))
           returns == s.brk \/ ~(i[t] + 1 < frame[t].cIterations)
       IN  IF ~returns
           THEN /\ scratch' = [scratch EXCEPT ![t] =
                       IF frame[t].mgf = 1 THEN [@ EXCEPT !.pbDBMask = s.pbDst]
                       ELSE [@ EXCEPT !.pbSeedMask = s.pbDst]]
                /\ frame' = [frame EXCEPT ![t] =
                       [@ EXCEPT !.cbMaskRemaining = s.cbMaskRemaining,
                                 !.pbMaskIndex = s.pbMaskIndex]]
                /\ i' = [i EXCEPT ![t] = @ + 1]
                /\ pc' = [pc EXCEPT ![t] = "count"]
                /\ UNCHANGED <<EM, scError, rgbCountAt>>
           ELSE IF frame[t].mgf = 1
           THEN /\ scratch' = [scratch EXCEPT ![t] = [@ EXCEPT !.pbDBMask = s.pbDst]]
                /\ EM' = [EM EXCEPT ![t] =
                       Write(Poke(@, 0, 0), cbHashAlg + 1,
                             SeqXor(scratch[t].pbDB, s.pbDst))]
                /\ frame' = [frame EXCEPT ![t] =
                       MaskGenEnter(2, cbHashAlg, cbHashAlg)]
                /\ rgbCountAt' = [rgbCountAt EXCEPT ![MaskGenFrame(t)] = Fill(4, 0)]
                /\ i' = [i EXCEPT ![t] = 0]
                /\ pc' = [pc EXCEPT ![t] = "count"]
                /\ UNCHANGED scError
           ELSE /\ scratch' = [scratch EXCEPT ![t] = [@ EXCEPT !.pbSeedMask = s.pbDst]]
                /\ EM' = [EM EXCEPT ![t] =
                       Write(@, 1, SeqXor(scratch[t].pbSeedInternal, s.pbDst))]
                /\ scError' = [scError EXCEPT ![t] = SYMCRYPT_NO_ERROR]
                /\ pc' = [pc EXCEPT ![t] = "done"]
                /\ UNCHANGED <<frame, rgbCountAt, i>>
    /\ UNCHANGED <<op, inp, rin, ret, log, shared>>

\* SymCryptRsaPkcs1ApplySignaturePadding of call t with the MD5 OIDs of the
\* shared table, in one step
PairSigApplyCall(t) ==
    /\ pc[t] = "idle"
    /\ \E pbHash \in DigestValues(16), which \in 1..2, fill \in FillBytes :
       \E k \in {16 + 11, 16 + 11 + 6 + shared.oids.MD5[1].cbOID} :
        LET ap == SymCryptRsaPkcs1ApplySignaturePadding(
                      pbHash, shared.oids.MD5[which], 0, Fill(k, fill))
        IN  /\ inp' = [inp EXCEPT ![t] =
                          [pbHash |-> pbHash, which |-> which, flags |-> 0,
                           cbPKCS1Format |-> k, prior |-> Fill(k, fill)]]
            /\ EM' = [EM EXCEPT ![t] = ap.buf]
            /\ scError' = [scError EXCEPT ![t] = ap.scError]
    /\ op' = [op EXCEPT ![t] = "Pkcs1ApplySignaturePadding"]
    /\ pc' = [pc EXCEPT ![t] = "done"]
    /\ UNCHANGED <<i, rin, ret, log, shared, frame, rgbCountAt, scratch>>

\* neither call has been made
InitPair ==
    /\ pc = [t \in Calls |-> "idle"]
    /\ op = [t \in Calls |-> "none"]
    /\ inp = [t \in Calls |-> NoArgs]
    /\ EM = [t \in Calls |-> <<>>]
    /\ scError = [t \in Calls |-> "none"]
    /\ i = [t \in Calls |-> 0]
    /\ rin = NoArgs
    /\ ret = NoRet
    /\ log = <<>>
    /\ shared = SharedData
    /\ frame = [t \in Calls |-> NoArgs]
    /\ rgbCountAt = [t \in Calls |-> Fill(4, 0)]
    /\ scratch = [t \in Calls |-> <<>>]

\* any call takes its next step
NextPair ==
    \E t \in Calls :
        \/ PairOaepApplyCall(t)
        \/ PairMaskGenCount(t)
        \/ PairMaskGenCopy(t)
        \/ PairSigApplyCall(t)

SpecPair == InitPair /\ [][NextPair]_vars

(***************************************************************************)
(* Properties: PKCS#1 v1.5 encryption padding                              *)
(***************************************************************************)
\* the state after remove has run on the block of a successful apply
Pkcs1EncRoundTripDone ==
    /\ pc = "done"
    /\ op = "Pkcs1ApplyEncryptionPadding"
    /\ rin.flags = 0
    /\ ~rin.pbNull
    /\ rin.cbPlaintext >= Len(inp.pbPlaintext)

\* C1: remove (flags 0, a buffer of at least |M| bytes) applied to the block that
\* apply (flags 0, |M| + 11 <= k) wrote, whatever the random source returned,
\* returns NoError, reports |M| and outputs exactly M.
C1_Pkcs1EncRoundTrip ==
    Pkcs1EncRoundTripDone =>
        /\ inp.flags = 0
        /\ Len(inp.pbPlaintext) + 11 <= inp.cbPKCS1Format
        /\ ret.scError = SYMCRYPT_NO_ERROR
        /\ ret.cbResult = Len(inp.pbPlaintext)
        /\ Slice(ret.pbPlaintext, 0, ret.cbResult) = inp.pbPlaintext

\* a round trip of a plaintext that holds a 0x00 byte, after a zero byte of PS
\* was redrawn
C1_Witness ==
    /\ Pkcs1EncRoundTripDone
    /\ Len(log) = 2
    /\ \E j \in 1..Len(inp.pbPlaintext) : inp.pbPlaintext[j] = 0
    /\ ret.scError = SYMCRYPT_NO_ERROR

\* the state after remove has run with flags 0 on a block of at least 2 bytes
Pkcs1EncRemoveDone ==
    /\ pc = "done"
    /\ op \in {"Pkcs1ApplyEncryptionPadding", "Pkcs1RemoveEncryptionPadding"}
    /\ rin.flags = 0
    /\ Len(rin.pbPKCS1Format) >= 2

\* C9: with flags 0 and k >= 2 remove returns InvalidArgument iff EM[0] # 0x00 or
\* EM[1] # 0x02 or no byte at an index in [2, k) is 0x00; otherwise the plaintext
\* is the bytes after the first 0x00 at index >= 2, of length k - i - 1, and no
\* minimum length of the padding string is required.
C9_Pkcs1EncRemoveParse ==
    Pkcs1EncRemoveDone =>
        LET blk == rin.pbPKCS1Format
            k == Len(blk)
            bad == \/ blk[1] # 0
                   \/ blk[2] # 2
                   \/ \A j \in 3..k : blk[j] # 0
        IN  /\ (ret.scError = SYMCRYPT_INVALID_ARGUMENT) <=> bad
            /\ ~bad =>
                 \E d \in 3..k :
                    /\ blk[d] = 0
                    /\ \A j \in 3..(d - 1) : blk[j] # 0
                    /\ ret.cbResult = k - d
                    /\ (rin.pbNull \/ rin.cbPlaintext >= k - d) =>
                         ret.scError = SYMCRYPT_NO_ERROR
                    /\ (~rin.pbNull /\ rin.cbPlaintext >= k - d) =>
                         Slice(ret.pbPlaintext, 0, k - d) = SubSeq(blk, d + 1, k)

\* the block 0x00 0x02 0x00 || M, with an empty padding string, is accepted
C9_Witness ==
    /\ Pkcs1EncRemoveDone
    /\ Len(rin.pbPKCS1Format) = 4
    /\ SubSeq(rin.pbPKCS1Format, 1, 3) = <<0, 2, 0>>
    /\ ~rin.pbNull
    /\ ret.scError = SYMCRYPT_NO_ERROR
    /\ ret.cbResult = 1
    /\ ret.pbPlaintext[1] = rin.pbPKCS1Format[4]

(***************************************************************************)
(* Properties: OAEP                                                        *)
(***************************************************************************)
\* the state after remove has run, with the label of apply and flags 0, on the
\* block of a successful apply, into a buffer that takes the plaintext
OaepRoundTripDone ==
    /\ pc = "done"
    /\ op = "OaepApplyEncryptionPadding"
    /\ rin.flags = 0
    /\ rin.pbLabel = inp.pbLabel
    /\ ~rin.pbNull
    /\ rin.cbPlaintext >= Len(inp.pbPlaintext)

\* C2: remove with the same hash and label applied to the block that apply wrote
\* (|M| + 2*hLen + 2 <= k; seed supplied in full, supplied shorter, or drawn from
\* the random source) returns NoError, reports |M| and outputs exactly M.
C2_OaepRoundTrip ==
    OaepRoundTripDone =>
        /\ Len(inp.pbPlaintext) + (2 * inp.hashAlgorithm.cbResult) + 2 <= inp.cbOAEPFormat
        /\ ret.scError = SYMCRYPT_NO_ERROR
        /\ ret.cbResult = Len(inp.pbPlaintext)
        /\ Slice(ret.pbPlaintext, 0, ret.cbResult) = inp.pbPlaintext

\* a round trip of a plaintext that begins with 0x01 under a supplied seed that
\* is shorter than the hash
C2_Witness ==
    /\ OaepRoundTripDone
    /\ ~inp.seedNull
    /\ inp.cbSeed < inp.hashAlgorithm.cbResult
    /\ Len(inp.pbPlaintext) >= 1
    /\ inp.pbPlaintext[1] = 1
    /\ ret.scError = SYMCRYPT_NO_ERROR
    /\ ret.pbPlaintext[1] = 1

\* the state after remove has run with flags 0 on a block with first byte 0x00
\* whose recovered DB is H(L) followed by 0x00 bytes only (or by nothing)
OaepNoSeparatorDone ==
    /\ pc = "done"
    /\ op \in {"OaepApplyEncryptionPadding", "OaepRemoveEncryptionPadding"}
    /\ rin.flags = 0
    /\ Len(rin.pbOAEPFormat) >= (2 * rin.hashAlgorithm.cbResult) + 1
    /\ rin.pbOAEPFormat[1] = 0
    /\ LET cbHashAlg == rin.hashAlgorithm.cbResult
           pbDB == OaepUnmask(rin.pbOAEPFormat, rin.hashAlgorithm).pbDB
       IN  /\ SubSeq(pbDB, 1, cbHashAlg) = SymCryptHash(rin.hashAlgorithm, rin.pbLabel)
           /\ \A j \in (cbHashAlg + 1)..Len(pbDB) : pbDB[j] = 0

\* C8: remove returns InvalidArgument for every block whose recovered DB starts
\* with H(L) and has no 0x01 separator after it; it never returns NoError with an
\* empty plaintext for such a block.
C8_OaepNoSeparatorRejected ==
    OaepNoSeparatorDone => ret.scError = SYMCRYPT_INVALID_ARGUMENT

(***************************************************************************)
(* Properties: PKCS#1 v1.5 signature padding                               *)
(***************************************************************************)
\* apply was called with flags 0 and one of the two OID forms of its digest
SigTableApply ==
    /\ op \in {"Pkcs1ApplySignaturePadding", "Pkcs1ApplySignaturePadding+tamper"}
    /\ inp.digest \in SigTableDigests
    /\ inp.flags = 0
    /\ inp.oid \in {inp.digest.oids[1], inp.digest.oids[2]}

\* the state after Check or Verify has run on the unaltered block of such an apply
SigRoundTripDone ==
    /\ pc = "done"
    /\ op = "Pkcs1ApplySignaturePadding"
    /\ SigTableApply

\* C4: for each digest of the OID table, each of its two OID forms and every
\* k >= 11 + 6 + oLen + hLen, apply (flags 0) succeeds, Check with the same
\* digest and OID returns NoError on the block, and Verify given the digest's
\* two-entry list (flags 0) returns NoError on the block made with either form.
C4_Pkcs1SigRoundTrip ==
    /\ (SigTableApply
        /\ inp.cbPKCS1Format >= 11 + 6 + inp.oid.cbOID + inp.digest.cbHash)
          => scError = SYMCRYPT_NO_ERROR
    /\ (SigRoundTripDone /\ rin.call = "Check" /\ rin.pbHash = inp.pbHash
        /\ rin.oid = inp.oid /\ rin.flags = 0)
          => ret.scError = SYMCRYPT_NO_ERROR
    /\ (SigRoundTripDone /\ rin.call = "Verify" /\ ~rin.oidsNull
        /\ rin.pHashOIDs = inp.digest.oids /\ rin.flags = 0)
          => ret.scError = SYMCRYPT_NO_ERROR

\* Verify with the SHA-512 list accepts a block made with the short form, at the
\* second entry of the list
C4_Witness ==
    /\ SigRoundTripDone
    /\ rin.call = "Verify"
    /\ inp.digest.name = "SHA512"
    /\ inp.oid = SymCryptSha512OidList[2]
    /\ ~rin.oidsNull
    /\ rin.pHashOIDs = SymCryptSha512OidList
    /\ rin.flags = 0
    /\ Len(log) = 2
    /\ ret.scError = SYMCRYPT_NO_ERROR

\* the state after Verify has run with a non-empty OID set and recognized flags
SigVerifyDone ==
    /\ pc = "done"
    /\ rin.call = "Verify"
    /\ ~rin.oidsNull
    /\ Len(rin.pHashOIDs) >= 1
    /\ rin.flags \in {0, SYMCRYPT_FLAG_RSA_PKCS1_OPTIONAL_HASH_OID}

\* what one Check with the arguments of Verify returns, taken on its own
SigCheckAlone(oid, flags) ==
    SymCryptRsaPkcs1CheckSignaturePadding(
        rin.pbHash, oid, rin.pbPKCS1Format, flags, rin.prior).scError

\* the number of entries the ordered procedure checks: up to and including the
\* first entry whose Check returns NoError, all of them if there is none
SigEntriesRun ==
    LET hits == {j \in 1..Len(rin.pHashOIDs) :
                    SigCheckAlone(rin.pHashOIDs[j], 0) = SYMCRYPT_NO_ERROR}
    IN  IF hits = {} THEN Len(rin.pHashOIDs)
        ELSE CHOOSE j \in hits : \A m \in hits : j <= m

\* C5: for a non-empty OID set and recognized flags, the Checks that Verify ran
\* are: the entries in set order with flags 0, none after the first that returned
\* NoError; then one Check with no OID and NO_ASN1 exactly when the last entry's
\* Check failed and OPTIONAL_HASH_OID is set. Verify returns the result of the
\* last Check run, so NoError only if some Check run returned NoError, and with
\* OPTIONAL_HASH_OID clear a block matching only the NO_ASN1 encoding is refused.
C5_Pkcs1SigVerifyProcedure ==
    SigVerifyDone =>
        LET n == SigEntriesRun
            retry == /\ SigCheckAlone(rin.pHashOIDs[n], 0) # SYMCRYPT_NO_ERROR
                     /\ rin.flags = SYMCRYPT_FLAG_RSA_PKCS1_OPTIONAL_HASH_OID
            entries == [j \in 1..n |->
                           [oid |-> rin.pHashOIDs[j], flags |-> 0,
                            scError |-> SigCheckAlone(rin.pHashOIDs[j], 0)]]
            last == [oid |-> NoOid, flags |-> SYMCRYPT_FLAG_RSA_PKCS1_NO_ASN1,
                     scError |-> SigCheckAlone(NoOid, SYMCRYPT_FLAG_RSA_PKCS1_NO_ASN1)]
        IN  /\ log = (IF retry THEN Append(entries, last) ELSE entries)
            /\ ret.scError = log[Len(log)].scError
            /\ ret.scError = SYMCRYPT_NO_ERROR =>
                 \E j \in 1..Len(log) : log[j].scError = SYMCRYPT_NO_ERROR
            /\ (/\ rin.flags = 0
                /\ last.scError = SYMCRYPT_NO_ERROR
                /\ \A j \in 1..Len(rin.pHashOIDs) :
                      SigCheckAlone(rin.pHashOIDs[j], 0) # SYMCRYPT_NO_ERROR)
                 => ret.scError # SYMCRYPT_NO_ERROR

\* Verify with OPTIONAL_HASH_OID and a two-entry set on a block holding the bare
\* digest: both entries fail, the NO_ASN1 Check runs third and accepts
C5_Witness ==
    /\ SigVerifyDone
    /\ rin.flags = SYMCRYPT_FLAG_RSA_PKCS1_OPTIONAL_HASH_OID
    /\ Len(rin.pHashOIDs) = 2
    /\ Len(log) = 3
    /\ log[1].scError = SYMCRYPT_SIGNATURE_VERIFICATION_FAILURE
    /\ log[2].scError = SYMCRYPT_SIGNATURE_VERIFICATION_FAILURE
    /\ log[3].flags = SYMCRYPT_FLAG_RSA_PKCS1_NO_ASN1
    /\ ret.scError = SYMCRYPT_NO_ERROR

\* the state after Verify has run with an empty OID set and recognized flags
SigVerifyEmptyDone ==
    /\ pc = "done"
    /\ rin.call = "Verify"
    /\ Len(rin.pHashOIDs) = 0
    /\ rin.flags \in {0, SYMCRYPT_FLAG_RSA_PKCS1_OPTIONAL_HASH_OID}

\* C6: with an empty OID set (a null pointer, or a non-null pointer with count
\* 0) and recognized flags, Verify returns NoError if and only if the block is
\* 0x00 || 0x01 || 0xFF.. || 0x00 || digest, with or without OPTIONAL_HASH_OID.
C6_Pkcs1SigVerifyEmptySet ==
    SigVerifyEmptyDone =>
        LET blk == rin.pbPKCS1Format
            cbPadding == Len(blk) - 3 - Len(rin.pbHash)
        IN  (ret.scError = SYMCRYPT_NO_ERROR) <=>
               /\ cbPadding >= 8
               /\ blk = <<0, 1>> \o Fill(cbPadding, 255) \o <<0>> \o rin.pbHash

\* the state after Check has run on a block that apply wrote
SigCheckDone ==
    /\ pc = "done"
    /\ rin.call = "Check"

\* C10: Check with a different digest of the same length, and the OID and flags
\* of apply, on the block that apply wrote returns SignatureVerificationFailure;
\* Check returns NoError exactly when the observed block equals, byte for byte,
\* the block re-encoded from Check's arguments, whatever the scratch buffer held.
C10_Pkcs1SigCheckWrongDigest ==
    SigCheckDone =>
        LET again == SymCryptRsaPkcs1ApplySignaturePadding(
                         rin.pbHash, rin.oid, rin.flags,
                         Fill(Len(rin.pbPKCS1Format), 0))
        IN  /\ (/\ op = "Pkcs1ApplySignaturePadding"
                /\ rin.pbHash # inp.pbHash
                /\ rin.oid = inp.oid
                /\ rin.flags = inp.flags)
                 => ret.scError = SYMCRYPT_SIGNATURE_VERIFICATION_FAILURE
            /\ (ret.scError = SYMCRYPT_NO_ERROR) <=>
                 /\ again.scError = SYMCRYPT_NO_ERROR
                 /\ \A j \in 1..Len(rin.pbPKCS1Format) :
                       again.buf[j] = rin.pbPKCS1Format[j]

\* Check with a digest that differs from the signed one in its last byte only,
\* run with the observed block itself as the scratch buffer's prior contents
C10_Witness ==
    /\ SigCheckDone
    /\ op = "Pkcs1ApplySignaturePadding"
    /\ rin.oid = inp.oid
    /\ rin.flags = inp.flags
    /\ rin.pbHash # inp.pbHash
    /\ SubSeq(rin.pbHash, 1, Len(rin.pbHash) - 1)
         = SubSeq(inp.pbHash, 1, Len(inp.pbHash) - 1)
    /\ rin.prior = rin.pbPKCS1Format
    /\ ret.scError = SYMCRYPT_SIGNATURE_VERIFICATION_FAILURE

(***************************************************************************)
(* Properties: PSS                                                         *)
(***************************************************************************)
\* emLen = ceil((nBits - 1) / 8)
PssEmLen(nBitsOfModulus) == (nBitsOfModulus + 6) \div 8

\* apply ran with flags 0 and emLen >= hLen + sLen + 2, and the random source,
\* if it was asked for the salt, did not fail (a negative cbSalt stands for a
\* salt length near SIZE_MAX, which no block is long enough for)
PssApplyInRange ==
    /\ op \in {"PssApplySignaturePadding", "PssApplySignaturePadding+tamper"}
    /\ inp.flags = 0
    /\ inp.cbSalt >= 0
    /\ PssEmLen(inp.nBitsOfModulus)
         >= SymCryptHashResultSize(inp.hashAlgorithm) + inp.cbSalt + 2
    /\ (log = <<>> \/ log[1].err = SYMCRYPT_NO_ERROR)

\* the state after verify has run, with the digest and the salt length of apply
\* and flags 0, on the unaltered block of such an apply
PssRoundTripDone ==
    /\ pc = "done"
    /\ op = "PssApplySignaturePadding"
    /\ PssApplyInRange
    /\ rin.pbHash = inp.pbHash
    /\ rin.cbSalt = inp.cbSalt
    /\ rin.flags = 0

\* C3: for every digest, every salt (supplied or random) of sLen bytes and every
\* nBits with k = ceil(nBits/8) and emLen >= hLen + sLen + 2, apply (flags 0)
\* succeeds and verify (same digest, sLen, nBits, flags 0) returns NoError on
\* the block apply wrote.
C3_PssRoundTrip ==
    /\ PssApplyInRange => scError = SYMCRYPT_NO_ERROR
    /\ PssRoundTripDone => ret.scError = SYMCRYPT_NO_ERROR

\* a round trip with a random two-byte salt for a modulus of 1 mod 8 bits
C3_Witness ==
    /\ PssRoundTripDone
    /\ inp.nBitsOfModulus % 8 = 1
    /\ inp.saltNull
    /\ inp.cbSalt = 2
    /\ Len(log[1].bytes) = 2
    /\ EM[1] = 0
    /\ ret.scError = SYMCRYPT_NO_ERROR

\* the state after verify has run with flags 0
PssVerifyDone ==
    /\ pc = "done"
    /\ op \in {"PssApplySignaturePadding", "PssApplySignaturePadding+tamper"}
    /\ rin.flags = 0
    /\ Len(rin.pbPSSFormat) = PssBlockLen(rin.nBitsOfModulus)

\* the block apply writes for verify's digest and modulus and the cbSalt bytes
\* at the end of the DB that the block em (after the skipped byte) unmasks to
PssRebuilt(em, cbDB) ==
    SymCryptRsaPssApplySignaturePadding(
        rin.pbHash, rin.hashAlgorithm, FALSE,
        Slice(SeqXor(Slice(em, 0, cbDB),
                     SymCryptRsaPaddingMaskGeneration(
                         rin.hashAlgorithm,
                         Slice(em, cbDB, SymCryptHashResultSize(rin.hashAlgorithm)),
                         cbDB)),
              cbDB - rin.cbSalt, rin.cbSalt),
        rin.cbSalt, rin.nBitsOfModulus, 0,
        Fill(Len(rin.pbPSSFormat), 0), [err |-> SYMCRYPT_NO_ERROR, bytes |-> <<>>])

\* verify answered NoError exactly for the block apply writes for its digest,
\* modulus and embedded salt, and InvalidArgument otherwise
PssVerifyAnswersAsApply ==
    LET skip == IF rin.nBitsOfModulus % 8 = 1 THEN 1 ELSE 0
        em == SubSeq(rin.pbPSSFormat, skip + 1, Len(rin.pbPSSFormat))
        cbDB == Len(em) - SymCryptHashResultSize(rin.hashAlgorithm) - 1
        same == /\ cbDB >= rin.cbSalt + 1
                /\ PssRebuilt(em, cbDB).scError = SYMCRYPT_NO_ERROR
                /\ PssRebuilt(em, cbDB).buf = rin.pbPSSFormat
    IN  /\ ret.scError \in {SYMCRYPT_NO_ERROR, SYMCRYPT_INVALID_ARGUMENT}
        /\ ret.scError = SYMCRYPT_NO_ERROR => same
        /\ ~same => ret.scError = SYMCRYPT_INVALID_ARGUMENT

PssVerifyOnlyAppliedNoWrap ==
    (PssVerifyDone /\ rin.cbSalt >= 0) => PssVerifyAnswersAsApply

\* verify, with the digest and salt length of apply, refuses a block in which
\* one bit of the last byte of the hash H was flipped
C7_Witness ==
    /\ PssVerifyDone
    /\ op = "PssApplySignaturePadding+tamper"
    /\ rin.pbHash = inp.pbHash
    /\ rin.cbSalt = inp.cbSalt
    /\ i = Len(EM) - 2
    /\ ret.scError = SYMCRYPT_INVALID_ARGUMENT

(***************************************************************************)
(* Properties: the output buffer of the remove paths                       *)
(***************************************************************************)
\* the state after a remove call with flags 0
RemoveDone ==
    /\ pc = "done"
    /\ op \in {"Pkcs1ApplyEncryptionPadding", "Pkcs1RemoveEncryptionPadding",
               "OaepApplyEncryptionPadding", "OaepRemoveEncryptionPadding"}
    /\ rin.flags = 0

\* the plaintext of a validly padded PKCS#1 v1.5 block, as a set: the bytes after
\* the first 0x00 at index >= 2 of a block starting 0x00 0x02, none otherwise
Pkcs1EncPlaintexts(blk) ==
    IF Len(blk) >= 3 /\ blk[1] = 0 /\ blk[2] = 2
    THEN {SubSeq(blk, d + 1, Len(blk)) :
             d \in {e \in 3..Len(blk) : blk[e] = 0 /\ \A j \in 3..(e - 1) : blk[j] # 0}}
    ELSE {}

\* the plaintext of a validly padded OAEP block, as a set: the bytes after the
\* 0x01 of a data block lHash || 0x00.. || 0x01 || M behind a first byte 0x00
OaepPlaintexts(blk, hashAlgorithm, pbLabel) ==
    IF Len(blk) >= 2 * SymCryptHashResultSize(hashAlgorithm) + 2 /\ blk[1] = 0
    THEN LET h == SymCryptHashResultSize(hashAlgorithm)
             db == SeqXor(SubSeq(blk, h + 2, Len(blk)),
                       SymCryptRsaPaddingMaskGeneration(
                           hashAlgorithm,
                           SeqXor(SubSeq(blk, 2, h + 1),
                                  SymCryptRsaPaddingMaskGeneration(
                                      hashAlgorithm, SubSeq(blk, h + 2, Len(blk)), h)),
                           Len(blk) - h - 1))
         IN  IF SubSeq(db, 1, h) = SymCryptHash(hashAlgorithm, pbLabel)
             THEN {SubSeq(db, d + 1, Len(db)) :
                      d \in {e \in (h + 1)..Len(db) :
                                db[e] = 1 /\ \A j \in (h + 1)..(e - 1) : db[j] = 0}}
             ELSE {}
    ELSE {}

\* the plaintexts of the block the remove call was given
RemovePlaintexts ==
    IF op \in {"Pkcs1ApplyEncryptionPadding", "Pkcs1RemoveEncryptionPadding"}
    THEN Pkcs1EncPlaintexts(rin.pbPKCS1Format)
    ELSE OaepPlaintexts(rin.pbOAEPFormat, rin.hashAlgorithm, rin.pbLabel)

\* C11: on a validly padded block whose plaintext M has n bytes, both remove
\* paths: with an absent buffer return NoError with the length cell n; with a
\* buffer of capacity < n return BufferTooSmall with the length cell n and the
\* buffer untouched; otherwise return NoError, set the length cell to n and
\* write exactly the n bytes of M.
C11_RemoveOutputProtocol ==
    RemoveDone =>
        \A M \in RemovePlaintexts :
            /\ ret.cbResult = Len(M)
            /\ rin.pbNull =>
                 /\ ret.scError = SYMCRYPT_NO_ERROR
                 /\ ret.pbPlaintext = rin.prior.pbPlaintext
            /\ (~rin.pbNull /\ rin.cbPlaintext < Len(M)) =>
                 /\ ret.scError = SYMCRYPT_BUFFER_TOO_SMALL
                 /\ ret.pbPlaintext = rin.prior.pbPlaintext
            /\ (~rin.pbNull /\ rin.cbPlaintext >= Len(M)) =>
                 /\ ret.scError = SYMCRYPT_NO_ERROR
                 /\ ret.pbPlaintext
                      = M \o SubSeq(rin.prior.pbPlaintext, Len(M) + 1, rin.cbPlaintext)

\* OAEP remove is given a one-byte buffer for a two-byte plaintext
C11_Witness ==
    /\ RemoveDone
    /\ op = "OaepRemoveEncryptionPadding"
    /\ \E M \in RemovePlaintexts : Len(M) = 2
    /\ ~rin.pbNull
    /\ rin.cbPlaintext = 1
    /\ ret.scError = SYMCRYPT_BUFFER_TOO_SMALL
    /\ ret.cbResult = 2
    /\ ret.pbPlaintext = rin.prior.pbPlaintext

(***************************************************************************)
(* Flags                                                                   *)
(***************************************************************************)
\* the operation that apply names, with or without a later change of the block
ApplyOpIs(name) == pc # "idle" /\ op \in {name, name \o "+tamper"}

\* a second call (remove, Check, verify) has returned after the named apply
SecondCallAfter(name) == pc = "done" /\ op \in {name, name \o "+tamper"}

\* the apply calls that know no flag
NoFlagApplyDone ==
    \/ ApplyOpIs("Pkcs1ApplyEncryptionPadding")
    \/ ApplyOpIs("OaepApplyEncryptionPadding")
    \/ ApplyOpIs("PssApplySignaturePadding")

\* the remove and verify calls that know no flag
NoFlagSecondDone ==
    \/ SecondCallAfter("Pkcs1ApplyEncryptionPadding")
    \/ SecondCallAfter("OaepApplyEncryptionPadding")
    \/ SecondCallAfter("PssApplySignaturePadding")
    \/ (pc = "done" /\ op \in {"Pkcs1RemoveEncryptionPadding",
                                "OaepRemoveEncryptionPadding"})

\* C12: every operation returns InvalidArgument when its flags hold a bit it
\* does not know, whatever its other arguments: any nonzero flags for PKCS#1
\* encryption apply and remove, OAEP apply and remove, PSS apply and verify;
\* anything but 0 and NO_ASN1 for PKCS#1 signature apply and Check; anything
\* but 0 and OPTIONAL_HASH_OID for PKCS#1 signature verify.
C12_UnknownFlagsRefused ==
    /\ (NoFlagApplyDone /\ inp.flags # 0) => scError = SYMCRYPT_INVALID_ARGUMENT
    /\ (NoFlagSecondDone /\ rin.flags # 0) => ret.scError = SYMCRYPT_INVALID_ARGUMENT
    /\ (ApplyOpIs("Pkcs1ApplySignaturePadding")
          /\ inp.flags \notin {0, SYMCRYPT_FLAG_RSA_PKCS1_NO_ASN1})
            => scError = SYMCRYPT_INVALID_ARGUMENT
    /\ (SecondCallAfter("Pkcs1ApplySignaturePadding") /\ rin.call = "Check"
          /\ rin.flags \notin {0, SYMCRYPT_FLAG_RSA_PKCS1_NO_ASN1})
            => ret.scError = SYMCRYPT_INVALID_ARGUMENT
    /\ (SecondCallAfter("Pkcs1ApplySignaturePadding") /\ rin.call = "Verify"
          /\ rin.flags \notin {0, SYMCRYPT_FLAG_RSA_PKCS1_OPTIONAL_HASH_OID})
            => ret.scError = SYMCRYPT_INVALID_ARGUMENT

\* verify is given NO_ASN1 with an untouched block, its own digest and the OID
\* list of that digest, and refuses
C12_Witness ==
    /\ pc = "done"
    /\ op = "Pkcs1ApplySignaturePadding"
    /\ rin.call = "Verify"
    /\ rin.flags = SYMCRYPT_FLAG_RSA_PKCS1_NO_ASN1
    /\ inp.flags = 0
    /\ inp.oid = inp.digest.oids[1]
    /\ ~rin.oidsNull
    /\ rin.pHashOIDs = inp.digest.oids
    /\ ret.scError = SYMCRYPT_INVALID_ARGUMENT

(***************************************************************************)
(* PKCS#1 v1.5 signature padding: what apply writes                        *)
(***************************************************************************)
\* apply of the signature padding has returned NoError and the block is as it
\* left it
SigApplyOk ==
    /\ pc # "idle"
    /\ op = "Pkcs1ApplySignaturePadding"
    /\ scError = SYMCRYPT_NO_ERROR

\* T of the written form: the digest alone with NO_ASN1, the full DigestInfo
\* for an OID of nonzero length, the bare OCTET STRING for an OID of length 0
SigExpectedT(pbHash, oid, flags) ==
    IF flags = SYMCRYPT_FLAG_RSA_PKCS1_NO_ASN1 THEN pbHash
    ELSE IF oid.cbOID > 0
    THEN <<48, 4 + oid.cbOID + Len(pbHash), 48, oid.cbOID>> \o oid.pbOID
             \o <<4, Len(pbHash)>> \o pbHash
    ELSE <<4, Len(pbHash)>> \o pbHash

\* 0x00 || 0x01 || 0xFF.. || 0x00 || T filling k bytes
SigExpectedBlock(k, T) == <<0, 1>> \o Fill(k - 3 - Len(T), 255) \o <<0>> \o T

\* the input of the written example: SHA-256, long OID, k = 256, zero digest
SigExampleInput ==
    /\ inp.digest.name = "SHA256"
    /\ inp.oid = SymCryptSha256OidList[1]
    /\ inp.flags = 0
    /\ inp.cbPKCS1Format = 256
    /\ inp.pbHash = Fill(32, 0)

\* C13: on success apply writes exactly 0x00 || 0x01 || 0xFF^(k-3-tLen) || 0x00
\* || T over all k bytes, T being 30 (tLen-2) 30 oLen OID 04 hLen digest for an
\* OID of nonzero length, 04 hLen digest for no OID, and the digest alone with
\* NO_ASN1; for SHA-256 with the long OID, k = 256 and a zero digest that is 202
\* bytes of 0xFF followed by 00 30 31 30 0D <OID> 04 20 <digest>.
C13_SigApplyEncoding ==
    SigApplyOk =>
        /\ Len(EM) = inp.cbPKCS1Format
        /\ EM = SigExpectedBlock(inp.cbPKCS1Format,
                                 SigExpectedT(inp.pbHash, inp.oid, inp.flags))
        /\ SigExampleInput =>
              EM = <<0, 1>> \o Fill(202, 255)
                     \o <<0, 48, 49, 48, 13,
                          6, 9, 96, 134, 72, 1, 101, 3, 4, 2, 1, 5, 0, 4, 32>>
                     \o Fill(32, 0)

\* apply has written the block of the example
C13_Witness ==
    /\ SigApplyOk
    /\ pc = "applied"
    /\ SigExampleInput
    /\ Len(EM) = 256
    /\ SubSeq(EM, 203, 209) = <<255, 255, 0, 48, 49, 48, 13>>

\* tLen of a call: hLen with the NO_ASN1 bit, 6 + oLen + hLen with an OID of
\* nonzero length, 2 + hLen with none
SigTLen(cbHash, cbOID, flags) ==
    IF flags % 2 = 1 THEN cbHash
    ELSE IF cbOID > 0 THEN 6 + cbOID + cbHash
    ELSE 2 + cbHash

\* the length bytes of a DigestInfo in a block of k bytes are tLen - 2, oLen
\* and hLen themselves, each below 0x80
SigLengthBytesExact(blk, k, cbHash, cbOID) ==
    /\ blk[k - cbHash] = cbHash
    /\ cbHash < 128
    /\ cbOID > 0 =>
         /\ blk[k - (6 + cbOID + cbHash) + 2] = 4 + cbOID + cbHash
         /\ 4 + cbOID + cbHash < 128
         /\ blk[k - (6 + cbOID + cbHash) + 4] = cbOID
         /\ cbOID < 128

\* C14: apply returns InvalidArgument whenever tLen > 0x80 or k < 3 + 8 + tLen;
\* so every block it writes has at least 8 bytes of 0xFF, and every length byte
\* of the DigestInfo (tLen - 2, oLen, hLen) is below 0x80 and not truncated.
C14_SigApplyLimits ==
    /\ (ApplyOpIs("Pkcs1ApplySignaturePadding")
          /\ (\/ SigTLen(Len(inp.pbHash), inp.oid.cbOID, inp.flags) > 128
              \/ inp.cbPKCS1Format
                   < 3 + 8 + SigTLen(Len(inp.pbHash), inp.oid.cbOID, inp.flags)))
            => scError = SYMCRYPT_INVALID_ARGUMENT
    /\ SigApplyOk =>
         /\ inp.cbPKCS1Format - 3
               - SigTLen(Len(inp.pbHash), inp.oid.cbOID, inp.flags) >= 8
         /\ \A j \in 3..10 : EM[j] = 255
         /\ inp.flags = 0 =>
               SigLengthBytesExact(EM, inp.cbPKCS1Format, Len(inp.pbHash),
                                   inp.oid.cbOID)

\* a digest of 127 bytes without OID makes 129 bytes of encoding; apply refuses
\* it in a block that has room for it and for 8 bytes of padding
C14_Witness ==
    /\ pc = "applied"
    /\ op = "Pkcs1ApplySignaturePadding"
    /\ inp.flags = 0
    /\ Len(inp.pbHash) = 127
    /\ inp.oid = NoOid
    /\ inp.cbPKCS1Format >= 3 + 8 + 129
    /\ scError = SYMCRYPT_INVALID_ARGUMENT
    /\ EM = inp.prior

\* C15: apply, and with it Check, returns InvalidArgument whenever the OID
\* length is nonzero and the OID pointer is absent, with NO_ASN1 clear and with
\* NO_ASN1 set.
C15_SigApplyNullOidRefused ==
    /\ (ApplyOpIs("Pkcs1ApplySignaturePadding")
          /\ inp.oid.pbNull /\ inp.oid.cbOID > 0
          /\ inp.flags \in {0, SYMCRYPT_FLAG_RSA_PKCS1_NO_ASN1})
            => scError = SYMCRYPT_INVALID_ARGUMENT
    /\ (SecondCallAfter("Pkcs1ApplySignaturePadding") /\ rin.call = "Check"
          /\ rin.oid.pbNull /\ rin.oid.cbOID > 0
          /\ rin.flags \in {0, SYMCRYPT_FLAG_RSA_PKCS1_NO_ASN1})
            => ret.scError = SYMCRYPT_INVALID_ARGUMENT

(***************************************************************************)
(* PKCS#1 v1.5 encryption padding: what apply writes                       *)
(***************************************************************************)
\* apply of the encryption padding has returned NoError
Pkcs1EncApplyOk ==
    /\ pc \in {"applied", "done"}
    /\ op = "Pkcs1ApplyEncryptionPadding"
    /\ scError = SYMCRYPT_NO_ERROR

\* the block of the written example
Pkcs1EncExampleBlock ==
    <<0, 2, 170, 187, 204, 221, 238, 255, 17, 34, 0, 1, 2, 3, 4, 5>>

\* C16: whenever apply returns NoError the k-byte block is 0x00 || 0x02 || PS ||
\* 0x00 || M with |PS| = k - |M| - 3 >= 8 and no zero byte in PS, whatever the
\* random source returned; for k = 16, M = 01 02 03 04 05 and the random bytes
\* AA BB CC DD EE FF 11 22 it is 00 02 AA BB CC DD EE FF 11 22 00 01 02 03 04 05.
C16_Pkcs1EncApplyEncoding ==
    Pkcs1EncApplyOk =>
        /\ Len(EM) = inp.cbPKCS1Format
        /\ Len(EM) - Len(inp.pbPlaintext) - 3 >= 8
        /\ EM[1] = 0
        /\ EM[2] = 2
        /\ \A j \in 3..(Len(EM) - Len(inp.pbPlaintext) - 1) : EM[j] \in 1..255
        /\ EM[Len(EM) - Len(inp.pbPlaintext)] = 0
        /\ SubSeq(EM, Len(EM) - Len(inp.pbPlaintext) + 1, Len(EM)) = inp.pbPlaintext
        /\ (inp.pbPlaintext = Pkcs1EncExamplePlaintext
              /\ SubSeq(EM, 3, 10) = <<170, 187, 204, 221, 238, 255, 17, 34>>)
            => EM = Pkcs1EncExampleBlock

\* apply has written a block after a zero byte of the first draw was drawn again
C16_Witness ==
    /\ Pkcs1EncApplyOk
    /\ pc = "applied"
    /\ Len(log) = 2
    /\ Len(inp.pbPlaintext) = 1
    /\ Len(EM) = 12
    /\ \A j \in 3..10 : EM[j] # 0

\* apply has written the block of the example, no byte having been drawn again
C16_ExampleReached ==
    /\ Pkcs1EncApplyOk
    /\ Len(log) = 1
    /\ inp.cbPKCS1Format = 16
    /\ EM = Pkcs1EncExampleBlock

(***************************************************************************)
(* Encryption padding: what the apply operations refuse                    *)
(***************************************************************************)
\* C17: both apply operations of the encryption paddings return
\* InvalidArgument whenever the plaintext does not fit the block, k < |M| + 11
\* for PKCS#1 and k < |M| + 2*hLen + 2 for OAEP; OAEP apply also returns
\* InvalidArgument for a supplied seed longer than hLen.
C17_EncApplyRefusals ==
    /\ (ApplyOpIs("Pkcs1ApplyEncryptionPadding")
          /\ inp.cbPKCS1Format < Len(inp.pbPlaintext) + 11)
            => (pc = "applied" /\ scError = SYMCRYPT_INVALID_ARGUMENT)
    /\ (ApplyOpIs("OaepApplyEncryptionPadding")
          /\ inp.cbOAEPFormat
               < Len(inp.pbPlaintext) + 2 * inp.hashAlgorithm.cbResult + 2)
            => scError = SYMCRYPT_INVALID_ARGUMENT
    /\ (ApplyOpIs("OaepApplyEncryptionPadding")
          /\ ~inp.seedNull /\ Len(inp.pbSeed) > inp.hashAlgorithm.cbResult)
            => scError = SYMCRYPT_INVALID_ARGUMENT

\* OAEP apply refuses a seed of hLen + 1 bytes for a plaintext that fits
C17_Witness ==
    /\ pc = "applied"
    /\ op = "OaepApplyEncryptionPadding"
    /\ inp.flags = 0
    /\ ~inp.seedNull
    /\ Len(inp.pbSeed) = inp.hashAlgorithm.cbResult + 1
    /\ inp.cbOAEPFormat >= Len(inp.pbPlaintext) + 2 * inp.hashAlgorithm.cbResult + 2
    /\ scError = SYMCRYPT_INVALID_ARGUMENT
    /\ EM = inp.prior

\* PKCS#1 apply refuses a block one byte too short for its plaintext
C17_Pkcs1EncTooShort ==
    /\ pc = "applied"
    /\ op = "Pkcs1ApplyEncryptionPadding"
    /\ inp.flags = 0
    /\ inp.cbPKCS1Format = Len(inp.pbPlaintext) + 10
    /\ scError = SYMCRYPT_INVALID_ARGUMENT

(***************************************************************************)
(* OAEP: what apply writes                                                 *)
(***************************************************************************)
\* MGF1 of the standard: Hash(seed || C) for the 4-byte big-endian counters
\* C = c, c + 1, .. n - 1, one after the other
RECURSIVE Mgf1Blocks(_, _, _, _)
Mgf1Blocks(hashAlgorithm, seed, c, n) ==
    IF c >= n THEN <<>>
    ELSE SymCryptHash(hashAlgorithm,
             seed \o <<(c \div 16777216) % 256, (c \div 65536) % 256,
                       (c \div 256) % 256, c % 256>>)
         \o Mgf1Blocks(hashAlgorithm, seed, c + 1, n)

\* the first len bytes of it
Mgf1(hashAlgorithm, seed, len) ==
    SubSeq(Mgf1Blocks(hashAlgorithm, seed, 0,
                      (len + hashAlgorithm.cbResult - 1) \div hashAlgorithm.cbResult),
           1, len)

\* EM = 0x00 || maskedSeed || maskedDB for a data block and a seed
OaepExpectedFromMaskedDB(hashAlgorithm, seed, maskedDB) ==
    <<0>> \o SeqXor(seed, Mgf1(hashAlgorithm, maskedDB, Len(seed))) \o maskedDB

OaepExpectedBlock(hashAlgorithm, seed, DB) ==
    OaepExpectedFromMaskedDB(hashAlgorithm, seed,
        SeqXor(DB, Mgf1(hashAlgorithm, seed, Len(DB))))

\* DB = H(L) || 0x00^(k - |M| - 2*hLen - 2) || 0x01 || M
OaepExpectedDB(hashAlgorithm, L, M, k) ==
    SymCryptHash(hashAlgorithm, L)
        \o Fill(k - Len(M) - 2 * hashAlgorithm.cbResult - 2, 0) \o <<1>> \o M

\* the hLen-byte seed of the call: what the random source gave, or the
\* supplied seed followed by zero bytes
OaepSeedOfCall ==
    IF inp.seedNull THEN log[1].bytes
    ELSE inp.pbSeed \o Fill(inp.hashAlgorithm.cbResult - Len(inp.pbSeed), 0)

\* OAEP apply has returned NoError
OaepApplyOk ==
    /\ pc \in {"applied", "done"}
    /\ op = "OaepApplyEncryptionPadding"
    /\ scError = SYMCRYPT_NO_ERROR

\* C18: on success OAEP apply writes EM = 0x00 || maskedSeed || maskedDB over
\* all k bytes, with DB = H(L) || 0x00.. || 0x01 || M, the seed of hLen bytes (a
\* shorter supplied seed followed by zero bytes), maskedDB = DB xor
\* MGF1(seed, k - hLen - 1) and maskedSeed = seed xor MGF1(maskedDB, hLen).
C18_OaepApplyEncoding ==
    OaepApplyOk =>
        /\ Len(EM) = inp.cbOAEPFormat
        /\ Len(OaepSeedOfCall) = inp.hashAlgorithm.cbResult
        /\ EM = OaepExpectedBlock(inp.hashAlgorithm, OaepSeedOfCall,
                     OaepExpectedDB(inp.hashAlgorithm, inp.pbLabel, inp.pbPlaintext,
                                    inp.cbOAEPFormat))

\* apply has written a block for a supplied one-byte seed and a two-byte hash
C18_Witness ==
    /\ OaepApplyOk
    /\ pc = "applied"
    /\ ~inp.seedNull
    /\ inp.pbSeed = <<90>>
    /\ inp.hashAlgorithm.cbResult = 2
    /\ Len(inp.pbPlaintext) = 0
    /\ Len(EM) = 6
    /\ EM[1] = 0

(***************************************************************************)
(* OAEP: the label                                                         *)
(***************************************************************************)
\* remove has returned for a block that apply wrote under another label hash
OaepOtherLabelDone ==
    /\ pc = "done"
    /\ op = "OaepApplyEncryptionPadding"
    /\ SymCryptHash(inp.hashAlgorithm, rin.pbLabel)
         # SymCryptHash(inp.hashAlgorithm, inp.pbLabel)

\* C19: for labels L and L' with H(L) # H(L'), remove with L' on any block that
\* apply wrote with L returns InvalidArgument, for every plaintext and seed.
C19_OaepWrongLabel ==
    OaepOtherLabelDone =>
        /\ rin.pbOAEPFormat = EM
        /\ ret.scError = SYMCRYPT_INVALID_ARGUMENT

\* remove with the label 01 refuses the block apply wrote with the empty label
\* for a one-byte plaintext, the buffer being large enough
C19_Witness ==
    /\ OaepOtherLabelDone
    /\ inp.pbLabel = <<>>
    /\ rin.pbLabel = <<1>>
    /\ rin.flags = 0
    /\ Len(inp.pbPlaintext) = 1
    /\ ~rin.pbNull
    /\ rin.cbPlaintext >= 1
    /\ ret.scError = SYMCRYPT_INVALID_ARGUMENT

(***************************************************************************)
(* PSS: what apply writes                                                  *)
(***************************************************************************)
\* PSS apply has returned NoError and the block is as it left it
PssApplyOk ==
    /\ pc \in {"applied", "done"}
    /\ op = "PssApplySignaturePadding"
    /\ scError = SYMCRYPT_NO_ERROR

\* the salt of the call: what the random source gave, or the supplied one
PssSaltOfCall == IF inp.saltNull THEN log[1].bytes ELSE inp.pbSalt

\* a byte string with the top z bits of its first byte cleared
ClearTopBits(s, z) == [s EXCEPT ![1] = @ % (2 ^ (8 - z))]

\* maskedDB || H' || 0xBC for the hash H' of M'
PssExpectedFromH(hashAlgorithm, H, salt, emLen, nBits) ==
    ClearTopBits(
        SeqXor(Fill(emLen - Len(salt) - hashAlgorithm.cbResult - 2, 0)
                   \o <<1>> \o salt,
               Mgf1(hashAlgorithm, H, emLen - hashAlgorithm.cbResult - 1)),
        8 * emLen + 1 - nBits)
      \o H \o <<188>>

\* EM for a digest, a salt and a modulus of nBits bits
PssExpectedEM(hashAlgorithm, mHash, salt, emLen, nBits) ==
    PssExpectedFromH(hashAlgorithm,
        SymCryptHash(hashAlgorithm, Fill(8, 0) \o mHash \o salt),
        salt, emLen, nBits)

\* the number of bytes before EM in the block: one when nBits mod 8 = 1
PssLeadLen == IF inp.nBitsOfModulus % 8 = 1 THEN 1 ELSE 0

\* C20: on success with k = ceil(nBits/8) PSS apply writes EM = maskedDB || H'
\* || 0xBC, H' = H(0x00^8 || mHash || salt), DB = 0x00.. || 0x01 || salt,
\* maskedDB = DB xor MGF1(H', emLen - hLen - 1) with its top 8*emLen + 1 - nBits
\* bits cleared; so the last byte is 0xBC, those top bits of EM's first byte are
\* zero, and when nBits mod 8 = 1 EM follows one byte 0x00 at block index 0.
C20_PssApplyEncoding ==
    PssApplyOk =>
        /\ Len(EM) = (inp.nBitsOfModulus + 7) \div 8
        /\ Len(PssSaltOfCall) = inp.cbSalt
        /\ SubSeq(EM, PssLeadLen + 1, Len(EM))
             = PssExpectedEM(inp.hashAlgorithm, inp.pbHash, PssSaltOfCall,
                             Len(EM) - PssLeadLen, inp.nBitsOfModulus)
        /\ EM[Len(EM)] = 188
        /\ EM[PssLeadLen + 1]
             < 2 ^ (8 - (8 * (Len(EM) - PssLeadLen) + 1 - inp.nBitsOfModulus))
        /\ PssLeadLen = 1 => EM[1] = 0

\* apply has written a block for a modulus of 8*4 + 1 bits with a random salt of
\* one byte: a leading 0x00, then the four bytes of EM
C20_Witness ==
    /\ PssApplyOk
    /\ pc = "applied"
    /\ inp.nBitsOfModulus = 33
    /\ inp.saltNull
    /\ inp.cbSalt = 1
    /\ inp.hashAlgorithm.cbResult = 1
    /\ Len(EM) = 5
    /\ EM[1] = 0
    /\ EM[5] = 188

(***************************************************************************)
(* PSS: what verify refuses                                                *)
(***************************************************************************)
\* PSS verify has returned
PssVerifyReturned ==
    /\ pc = "done"
    /\ op \in {"PssApplySignaturePadding", "PssApplySignaturePadding+tamper"}

\* the number of bytes before EM in the block verify was given
PssVerifyLeadLen == IF rin.nBitsOfModulus % 8 = 1 THEN 1 ELSE 0

\* the first byte of an EM of emLen >= 1 bytes has one of its top
\* 8*emLen + 1 - nBits bits set
PssTopBitsSet(blk, lead, nBits) ==
    /\ Len(blk) - lead >= 1
    /\ blk[lead + 1] >= 2 ^ (8 - (8 * (Len(blk) - lead) + 1 - nBits))

\* C21: PSS verify returns InvalidArgument for every block whose last byte is
\* not 0xBC, or whose EM first byte has one of its top 8*emLen + 1 - nBits bits
\* set, or (nBits mod 8 = 1) whose byte 0 is nonzero; so also for the block of a
\* successful apply with the trailer changed to 0xBD.
C21_PssVerifyRefusesBadFrame ==
    (PssVerifyReturned
      /\ (\/ rin.pbPSSFormat[Len(rin.pbPSSFormat)] # 188
          \/ PssTopBitsSet(rin.pbPSSFormat, PssVerifyLeadLen, rin.nBitsOfModulus)
          \/ (PssVerifyLeadLen = 1 /\ rin.pbPSSFormat[1] # 0)))
        => ret.scError = SYMCRYPT_INVALID_ARGUMENT

\* verify, given the digest and salt length of apply, refuses the block of apply
\* whose trailer was changed from 0xBC to 0xBD
C21_Witness ==
    /\ PssVerifyReturned
    /\ op = "PssApplySignaturePadding+tamper"
    /\ i = Len(EM) - 1
    /\ rin.pbPSSFormat = EM
    /\ EM[Len(EM)] = 189
    /\ rin.flags = 0
    /\ rin.pbHash = inp.pbHash
    /\ rin.cbSalt = inp.cbSalt
    /\ ret.scError = SYMCRYPT_INVALID_ARGUMENT

\* verify refuses a block whose only fault is a set top bit of EM's first byte
C21_TopBitReached ==
    /\ PssVerifyReturned
    /\ op = "PssApplySignaturePadding+tamper"
    /\ rin.flags = 0
    /\ PssTopBitsSet(EM, PssVerifyLeadLen, rin.nBitsOfModulus)
    /\ EM[Len(EM)] = 188

\* the salt length sLen of a call does not fit: emLen < hLen + sLen + 2 over the
\* integers, which holds for every sLen in the top half of SIZE_T
PssSaltTooLong(emLen, cbHashAlg, cbSalt) ==
    cbSalt < 0 \/ emLen < cbHashAlg + cbSalt + 2

\* C22: PSS apply and PSS verify return InvalidArgument for every salt length
\* sLen with emLen < hLen + sLen + 2, also for salt lengths so large that
\* hLen + sLen + 2 wraps around in SIZE_T; no such call goes on to the DB.
C22_PssSaltLengthRefused ==
    /\ (ApplyOpIs("PssApplySignaturePadding")
          /\ PssSaltTooLong(inp.cbPSSFormat - PssLeadLen,
                            inp.hashAlgorithm.cbResult, inp.cbSalt))
            => scError = SYMCRYPT_INVALID_ARGUMENT
    /\ (PssVerifyReturned
          /\ PssSaltTooLong(Len(rin.pbPSSFormat) - PssVerifyLeadLen,
                            rin.hashAlgorithm.cbResult, rin.cbSalt))
            => ret.scError = SYMCRYPT_INVALID_ARGUMENT

\* the same for the salt lengths whose sum does not wrap
PssSmallSaltLengthRefused ==
    /\ (ApplyOpIs("PssApplySignaturePadding") /\ inp.cbSalt >= 0
          /\ PssSaltTooLong(inp.cbPSSFormat - PssLeadLen,
                            inp.hashAlgorithm.cbResult, inp.cbSalt))
            => scError = SYMCRYPT_INVALID_ARGUMENT
    /\ (PssVerifyReturned /\ rin.cbSalt >= 0
          /\ PssSaltTooLong(Len(rin.pbPSSFormat) - PssVerifyLeadLen,
                            rin.hashAlgorithm.cbResult, rin.cbSalt))
            => ret.scError = SYMCRYPT_INVALID_ARGUMENT

(***************************************************************************)
(* Properties: mask generation                                             *)
(***************************************************************************)
\* a mask generation call is running or has returned
MgfRunning == pc = "mgf" /\ op = "RsaPaddingMaskGeneration"
MgfDone == pc = "done" /\ op = "RsaPaddingMaskGeneration"

\* ceil(maskLen / hLen)
MgfBlocksNeeded(maskLen, hLen) ==
    IF maskLen % hLen = 0 THEN maskLen \div hLen ELSE (maskLen \div hLen) + 1

\* I2OSP(x, 4)
I2OSP4(x) ==
    <<(x \div 16777216) % 256, (x \div 65536) % 256, (x \div 256) % 256, x % 256>>

\* byte j (from 0) of H(seed || I2OSP(0,4)) || H(seed || I2OSP(1,4)) || ...
MgfStreamByte(hashAlgorithm, seed, j) ==
    SymCryptHash(hashAlgorithm, seed \o I2OSP4(j \div hashAlgorithm.cbResult))[
        (j % hashAlgorithm.cbResult) + 1]

\* C23: mask generation writes exactly the first maskLen bytes of
\* H(seed || I2OSP(0,4)) || H(seed || I2OSP(1,4)) || ... and nothing beyond
\* them, with ceil(maskLen/hLen) hash computations (none for maskLen = 0); the
\* counter hashed is I2OSP(i,4) below 256 blocks and from 256 blocks on.
C23_MaskGeneration ==
    /\ (MgfRunning \/ MgfDone) =>
          /\ Len(EM) = Len(inp.prior)
          /\ \A j \in (inp.cbDst + 1)..Len(EM) : EM[j] = inp.prior[j]
          /\ \A n \in 1..Len(log) : log[n] = I2OSP4(n - 1)
    /\ MgfDone =>
          /\ \A j \in 1..inp.cbDst :
                EM[j] = MgfStreamByte(inp.hashAlgorithm, inp.pbSrc, j - 1)
          /\ Len(log) = MgfBlocksNeeded(inp.cbDst, inp.hashAlgorithm.cbResult)
          /\ (inp.cbDst = 0 => log = <<>>)

\* a mask of 256 blocks whose last block is cut short: the full reversal of the
\* counter and the copy through rgbHash both happen
C23_Witness ==
    /\ MgfDone
    /\ inp.hashAlgorithm.cbResult = 2
    /\ inp.cbDst = 511
    /\ Len(log) = 256
    /\ ~rin.fAvoidDWORDReverse
    /\ Len(inp.pbSrc) = MaxMgfSeed

\* a mask of 255 blocks: only the low byte of the counter is written
C23_LowByteBranch ==
    /\ MgfDone
    /\ inp.cbDst = 255
    /\ Len(log) = 255
    /\ rin.fAvoidDWORDReverse

(***************************************************************************)
(* Properties: errors of the random source                                 *)
(***************************************************************************)
\* an apply call that draws from the random source is running or has returned,
\* and nothing has been called after it
RandomApplyOps ==
    {"Pkcs1ApplyEncryptionPadding", "OaepApplyEncryptionPadding",
     "PssApplySignaturePadding"}

\* C24: when a call of the random source inside an apply path returns an error
\* e (first PS draw, a redraw, the OAEP seed, the PSS salt), it is the last
\* call the apply makes to the random source and the apply returns exactly e.
C24_RandomErrorPropagates ==
    (op \in RandomApplyOps /\ pc \in {"ps", "applied"}) =>
        \A j \in 1..Len(log) :
            log[j].err # SYMCRYPT_NO_ERROR =>
                /\ j = Len(log)
                /\ pc = "applied"
                /\ scError = log[j].err

\* a redraw of a PS byte has failed with the second error value
C24_Witness ==
    /\ op = "Pkcs1ApplyEncryptionPadding"
    /\ pc = "applied"
    /\ Len(log) = 2
    /\ log[1].err = SYMCRYPT_NO_ERROR
    /\ log[2].err = "SYMCRYPT_FIPS_FAILURE"
    /\ scError = "SYMCRYPT_FIPS_FAILURE"

\* the first draw of PS, the OAEP seed and the PSS salt have failed
C24_FirstDrawFailed ==
    /\ op = "Pkcs1ApplyEncryptionPadding"
    /\ Len(log) = 1
    /\ scError = "SYMCRYPT_EXTERNAL_FAILURE"

C24_OaepSeedFailed ==
    /\ op = "OaepApplyEncryptionPadding"
    /\ Len(log) = 1
    /\ scError = "SYMCRYPT_FIPS_FAILURE"

C24_PssSaltFailed ==
    /\ op = "PssApplySignaturePadding"
    /\ Len(log) = 1
    /\ inp.cbSalt > 0
    /\ scError = "SYMCRYPT_EXTERNAL_FAILURE"

(***************************************************************************)
(* Properties: two calls in flight                                         *)
(***************************************************************************)
\* what call t returns and leaves in its block when it runs alone, from the
\* machine of one call
PairAlone(t) ==
    IF op[t] = "OaepApplyEncryptionPadding"
    THEN IF OaepBadArgs(Len(inp[t].pbPlaintext), inp[t].hashAlgorithm.cbResult,
                        FALSE, Len(inp[t].pbSeed), inp[t].flags, inp[t].cbOAEPFormat)
         THEN [scError |-> SYMCRYPT_INVALID_ARGUMENT, buf |-> inp[t].prior]
         ELSE [scError |-> SYMCRYPT_NO_ERROR,
               buf |-> OaepMask(inp[t].hashAlgorithm,
                                OaepSeedInternal(inp[t].pbSeed,
                                                 inp[t].hashAlgorithm.cbResult),
                                OaepDB(inp[t].pbPlaintext, inp[t].hashAlgorithm,
                                       inp[t].pbLabel, inp[t].cbOAEPFormat),
                                inp[t].prior)]
    ELSE SymCryptRsaPkcs1ApplySignaturePadding(
             inp[t].pbHash, SymCryptMd5OidList[inp[t].which], inp[t].flags,
             inp[t].prior)

\* C25: two codec calls on disjoint buffers, their steps interleaved in any
\* order, each return the value and leave the block that the call gives when
\* it runs alone; the shared OID tables and hash descriptors are never written.
C25_DisjointCallsIndependent ==
    /\ shared = SharedData
    /\ \A t \in Calls :
          pc[t] = "done" =>
              /\ scError[t] = PairAlone(t).scError
              /\ EM[t] = PairAlone(t).buf

\* both calls have returned with a block, two OAEP applies with hashes of
\* different length
C25_Witness ==
    /\ \A t \in Calls :
          /\ pc[t] = "done"
          /\ op[t] = "OaepApplyEncryptionPadding"
          /\ scError[t] = SYMCRYPT_NO_ERROR
    /\ inp[1].hashAlgorithm.cbResult # inp[2].hashAlgorithm.cbResult

\* both calls are inside a mask generation, one between the two halves of a
\* pass, the other past its first pass
C25_BothInFlight ==
    /\ pc[1] = "copy"
    /\ pc[2] = "count"
    /\ i[2] = 1
    /\ i[1] = 0

(***************************************************************************)
(* Properties: reads of PKCS#1 v1.5 encryption remove                      *)
(***************************************************************************)
\* a remove call with flags 0 on a block of at least two bytes has returned
Pkcs1EncRemoveScanned ==
    /\ pc = "done"
    /\ op \in {"Pkcs1ApplyEncryptionPadding", "Pkcs1RemoveEncryptionPadding"}
    /\ rin.flags = 0
    /\ Len(rin.pbPKCS1Format) >= 2

\* the blocks that differ from blk at most in bytes 0 and 1
Pkcs1EncFormatVariants(blk) ==
    {Poke(Poke(blk, 0, b0), 1, b1) : b0 \in RawBytes, b1 \in RawBytes}

\* what the same call reads on another block
Pkcs1EncReadsOn(blk) ==
    Pkcs1EncRemoveReads(blk, rin.flags, rin.pbNull, rin.cbPlaintext)

\* the passes a scan from index 2 to the first 0x00 takes: one for every index
\* with no 0x00 before it
Pkcs1EncScanLength(blk) ==
    Cardinality({j \in 2..(Len(blk) - 1) : \A m \in 2..(j - 1) : At(blk, m) # 0})

\* the call was refused for a format byte alone, or for it among other things
Pkcs1EncBadFormatByte(blk) == At(blk, 0) # 0 \/ At(blk, 1) # PKCS_BLOCKTYPE_2

\* C26 (as stated): for two blocks that differ only in bytes 0 and 1 the block
\* bytes read before the call returns and the passes of the delimiter scan are
\* the same, and a bad format byte is refused only after the scan has run.
C26_RemoveReadsIndependent ==
    Pkcs1EncRemoveScanned =>
        /\ \A alt \in Pkcs1EncFormatVariants(rin.pbPKCS1Format) :
              /\ Pkcs1EncReadsOn(alt).reads = frame.reads
              /\ Pkcs1EncReadsOn(alt).passes = frame.passes
        /\ Pkcs1EncBadFormatByte(rin.pbPKCS1Format) =>
              /\ ret.scError = SYMCRYPT_INVALID_ARGUMENT
              /\ frame.passes = Pkcs1EncScanLength(rin.pbPKCS1Format)

\* C26 (amended): for two blocks that differ only in bytes 0 and 1 the block
\* bytes read up to the end of the delimiter scan and the passes of the scan
\* are the same, and a bad format byte is refused only after the scan has run;
\* a block that is accepted is read further when its plaintext is copied out.
C26_RemoveChecksIndependent ==
    Pkcs1EncRemoveScanned =>
        /\ \A alt \in Pkcs1EncFormatVariants(rin.pbPKCS1Format) :
              /\ SubSeq(Pkcs1EncReadsOn(alt).reads, 1, Pkcs1EncReadsOn(alt).checks)
                    = SubSeq(frame.reads, 1, frame.checks)
              /\ Pkcs1EncReadsOn(alt).passes = frame.passes
        /\ frame.passes = Pkcs1EncScanLength(rin.pbPKCS1Format)
        /\ Pkcs1EncBadFormatByte(rin.pbPKCS1Format) =>
              ret.scError = SYMCRYPT_INVALID_ARGUMENT
        /\ Len(frame.reads) > frame.checks => ret.scError = SYMCRYPT_NO_ERROR

\* a block with a bad format byte and a delimiter further on was refused after
\* a scan of two passes
C26_Witness ==
    /\ Pkcs1EncRemoveScanned
    /\ At(rin.pbPKCS1Format, 0) # 0
    /\ Len(rin.pbPKCS1Format) = 4
    /\ At(rin.pbPKCS1Format, 2) # 0
    /\ At(rin.pbPKCS1Format, 3) = 0
    /\ frame.passes = 2
    /\ frame.reads = <<0, 1, 2, 3>>
    /\ ret.scError = SYMCRYPT_INVALID_ARGUMENT

(***************************************************************************)
(* Properties: termination of PKCS#1 v1.5 encryption apply                 *)
(***************************************************************************)
\* the offsets of PS in the block of the call in flight
Pkcs1EncPsOffsets ==
    2..(1 + Pkcs1EncPsLen(Len(inp.pbPlaintext), inp.cbPKCS1Format))

\* what a step of the redraw loop may do
Pkcs1EncRedrawStep ==
    pc = "ps" =>
        /\ \A j \in Pkcs1EncPsOffsets :
              (pc' = "ps" /\ At(EM, j) # 0) => At(EM', j) = At(EM, j)
        /\ \A j \in Pkcs1EncPsOffsets :
              At(EM', j) # At(EM, j) => At(EM, j) = 0
        /\ (pc' = "applied" /\ \E j \in Pkcs1EncPsOffsets : At(EM, j) = 0)
              => scError' \in RandomErrors
        /\ (/\ scError' = SYMCRYPT_NO_ERROR
            /\ (\E z \in Pkcs1EncPsOffsets : At(EM, z) = 0)
            /\ (\A m \in Pkcs1EncPsOffsets : At(EM', m) = At(EM, m)))
              => pc' = "ps"

\* the call returns
Pkcs1EncApplyReturns == (pc = "ps") ~> (pc = "applied")

\* C27: PKCS#1 encryption apply returns when the random source, asked again
\* and again for one byte, in the end gives a nonzero byte or an error; a PS
\* byte is drawn again only while it is 0x00 and a nonzero one never is; a
\* draw of 0x00 leaves the call in the loop, so that with a source that gives
\* 0x00 for ever the call never returns.
C27_Pkcs1EncApplyTerminates ==
    /\ Pkcs1EncApplyReturns
    /\ [][Pkcs1EncRedrawStep]_vars

\* apply has returned a block after a redraw
C27_Witness ==
    /\ op = "Pkcs1ApplyEncryptionPadding"
    /\ pc = "applied"
    /\ scError = SYMCRYPT_NO_ERROR
    /\ Len(log) = 2
    /\ \A j \in Pkcs1EncPsOffsets : At(EM, j) # 0

(***************************************************************************)
(* Properties: reads of PSS verify                                         *)
(***************************************************************************)
\* the reads of a returned verify lie in its block of k bytes, and the shift
\* count it used is in 0..8
PssVerifyReadsInside ==
    /\ \A r \in frame.reads : 0 <= r /\ r <= Len(rin.pbPSSFormat) - 1
    /\ frame.shifts => frame.dwZeroBits \in 0..8

\* C28: PSS verify reads the candidate block only at indices 0 .. k-1, for
\* every k >= 1 and every modulus size, also for k = 1 with nBits mod 8 = 1,
\* and the zero-bit count it shifts by is in 0..8 when it is used.
C28_PssVerifyReadsInBlock ==
    PssVerifyReturned => PssVerifyReadsInside

\* the same for the blocks that keep at least one byte after the skip
PssVerifyReadsInLongBlock ==
    (PssVerifyReturned /\ Len(rin.pbPSSFormat) - PssVerifyLeadLen >= 1)
        => PssVerifyReadsInside

(***************************************************************************)
(* Properties: the length OAEP remove reports                              *)
(***************************************************************************)
\* an OAEP remove call has reported a plaintext length
OaepRemoveReported ==
    /\ pc = "done"
    /\ op \in {"OaepApplyEncryptionPadding", "OaepRemoveEncryptionPadding"}
    /\ ret.scError \in {SYMCRYPT_NO_ERROR, SYMCRYPT_BUFFER_TOO_SMALL}

\* the length reported is that of a part of DB; a difference that wrapped
\* around in SIZE_T is below 0 here
OaepLengthInDB ==
    /\ ret.cbResult >= 0
    /\ ret.cbResult <= Len(rin.pbOAEPFormat) - rin.hashAlgorithm.cbResult - 1

\* C29: whenever OAEP remove returns NoError or BufferTooSmall, the plaintext
\* length it reports is at most k - hLen - 1 and was computed without unsigned
\* wrap-around, for every k >= hLen + 1, also for hLen + 1 <= k < 2*hLen + 1.
C29_OaepRemoveLengthInRange ==
    OaepRemoveReported => OaepLengthInDB

\* the same for the blocks whose DB has room for a label hash
OaepRemoveLengthInLongBlock ==
    (OaepRemoveReported
        /\ Len(rin.pbOAEPFormat) >= (2 * rin.hashAlgorithm.cbResult) + 1)
        => OaepLengthInDB

(***************************************************************************)
(* Properties: the target block of a refused apply                         *)
(***************************************************************************)
\* the apply call named has returned InvalidArgument and nothing was called
\* after it
ApplyRefused(name) ==
    /\ ApplyOpIs(name)
    /\ pc = "applied"
    /\ scError = SYMCRYPT_INVALID_ARGUMENT

\* C30: each of the four apply operations, when it returns InvalidArgument,
\* has written no byte of the caller's target block, also PSS apply called
\* with nBits mod 8 = 1 and nonzero flags or too short a block.
C30_RefusedApplyWritesNothing ==
    \A name \in {"Pkcs1ApplyEncryptionPadding", "OaepApplyEncryptionPadding",
                 "Pkcs1ApplySignaturePadding", "PssApplySignaturePadding"} :
        ApplyRefused(name) => EM = inp.prior

\* the same for the three operations other than PSS apply, and for PSS apply
\* on a modulus without a leading byte to skip
RefusedApplyWritesNothingElsewhere ==
    /\ \A name \in {"Pkcs1ApplyEncryptionPadding", "OaepApplyEncryptionPadding",
                    "Pkcs1ApplySignaturePadding"} :
          ApplyRefused(name) => EM = inp.prior
    /\ (ApplyRefused("PssApplySignaturePadding") /\ inp.nBitsOfModulus % 8 # 1)
          => EM = inp.prior

====
